---- MODULE Spec2Model ----
(***************************************************************************)
(* A model of the QPM registry backend: the R2-backed version store and    *)
(* index (utils/storage.ts), the request validators (utils/validation.ts), *)
(* the upload, delete and list endpoints, the permission store, the scope  *)
(* authorizer (utils/endpoint-permissions.ts) and the per-client rate      *)
(* limiter (durable-objects/RateLimiter.ts).                               *)
(*                                                                         *)
(* Strings the code inspects character by character (scopes, versions) are *)
(* sequences of one-character strings, so that normalisation, the regular  *)
(* expressions and the version parsers are computed, not assumed.          *)
(***************************************************************************)
EXTENDS Integers, Sequences, FiniteSets, TLC

\* ------------------------------------------------------------------ bounds

\* Longest scope string handed to normalizeScope by the normalisation harness.
MaxLen == 3

\* Store (R2 / KV) calls that may fail in one run.
MaxFaults == 1

\* Clock advances in one run.
MaxTicks == 4

\* Requests received in one run.
MaxRequests == 3

\* increment() calls made directly on the rate limiter in one series.
MaxCalls == 11

\* An optional value is a sequence: empty when absent, <<v>> when present.
Nothing == <<>>

Some(v) == <<v>>

\* ------------------------------------------------------- characters, strings

Lowers == <<"a","b","c","d","e","f","g","h","i","j","k","l","m",
            "n","o","p","q","r","s","t","u","v","w","x","y","z">>

Uppers == <<"A","B","C","D","E","F","G","H","I","J","K","L","M",
            "N","O","P","Q","R","S","T","U","V","W","X","Y","Z">>

DigitChars == <<"0","1","2","3","4","5","6","7","8","9">>

Range(f) == {f[i] : i \in DOMAIN f}

Digits == Range(DigitChars)

IsDigit(c) == c \in Digits

\* [a-zA-Z0-9-]
NameChars == Range(Lowers) \cup Range(Uppers) \cup Range(DigitChars) \cup {"-"}

\* [a-zA-Z0-9.-]
SuffixChars == NameChars \cup {"."}

\* Every character of s is one of chars.
AllChars(s, chars) == \A i \in 1..Len(s) : s[i] \in chars

\* String.prototype.toLowerCase, one character.
ToLowerChar(c) ==
    IF \E i \in 1..Len(Uppers) : Uppers[i] = c
    THEN Lowers[CHOOSE i \in 1..Len(Uppers) : Uppers[i] = c]
    ELSE c

toLowerCase(s) == [i \in 1..Len(s) |-> ToLowerChar(s[i])]

startsWith(s, c) == Len(s) >= 1 /\ s[1] = c

\* s.slice(1)
slice1(s) == IF Len(s) = 0 THEN <<>> ELSE Tail(s)

\* The position of the first c in s, 0 when there is none (indexOf + 1).
FirstIndex(s, c) ==
    IF \E i \in 1..Len(s) : s[i] = c
    THEN CHOOSE i \in 1..Len(s) : s[i] = c /\ \A j \in 1..(i - 1) : s[j] # c
    ELSE 0

\* s.split(c): the pieces of s between the occurrences of c.
RECURSIVE split(_, _)
split(s, c) ==
    LET i == FirstIndex(s, c)
    IN  IF i = 0 THEN <<s>>
        ELSE <<SubSeq(s, 1, i - 1)>> \o split(SubSeq(s, i + 1, Len(s)), c)

\* ---------------------------------------------------------- validation.ts

normalizeScopeNoStrip(scope) == toLowerCase(scope)

\* normalizeScope: one leading "@" removed, then lower-cased.
normalizeScope(scope) ==
    IF startsWith(scope, "@") THEN toLowerCase(slice1(scope)) ELSE toLowerCase(scope)

MAX_PACKAGE_NAME_LENGTH == 214

MAX_FILE_SIZE == 52428800

\* buildPackageName: "@" scope "/" packageName
buildPackageName(scope, packageName) == <<"@">> \o scope \o <<"/">> \o packageName

\* PACKAGE_NAME_REGEX = /^@([a-zA-Z0-9-]+)\/([a-zA-Z0-9-]+)$/
MatchesPackageName(name) ==
    /\ startsWith(name, "@")
    /\ LET rest  == slice1(name)
           slash == FirstIndex(rest, "/")
       IN  /\ slash >= 2
           /\ slash < Len(rest)
           /\ AllChars(SubSeq(rest, 1, slash - 1), NameChars)
           /\ AllChars(SubSeq(rest, slash + 1, Len(rest)), NameChars)

validatePackageName(name) ==
    Len(name) <= MAX_PACKAGE_NAME_LENGTH /\ MatchesPackageName(name)

\* The longest prefix of digits of s.
RECURSIVE DigitPrefixLen(_)
DigitPrefixLen(s) ==
    IF Len(s) >= 1 /\ IsDigit(s[1]) THEN 1 + DigitPrefixLen(Tail(s)) ELSE 0

\* s without a leading \d+ followed by the character c, as an optional value:
\* absent when s does not start that way.
DropNumberThen(s, c) ==
    LET n == DigitPrefixLen(s)
    IN  IF n >= 1 /\ Len(s) > n /\ s[n + 1] = c
        THEN Some(SubSeq(s, n + 2, Len(s))) ELSE Nothing

\* (-[a-zA-Z0-9.-]+)?(\+[a-zA-Z0-9.-]+)?$ on what follows the patch number.
MatchesVersionSuffix(rest) ==
    LET plus == FirstIndex(rest, "+")
        pre  == IF plus = 0 THEN rest ELSE SubSeq(rest, 1, plus - 1)
        bld  == IF plus = 0 THEN <<>> ELSE SubSeq(rest, plus + 1, Len(rest))
    IN  /\ \/ pre = <<>>
           \/ /\ startsWith(pre, "-")
              /\ Len(pre) >= 2
              /\ AllChars(slice1(pre), SuffixChars)
        /\ plus # 0 => (Len(bld) >= 1 /\ AllChars(bld, SuffixChars))

\* VERSION_REGEX = /^\d+\.\d+\.\d+(-[a-zA-Z0-9.-]+)?(\+[a-zA-Z0-9.-]+)?$/
MatchesVersion(version) ==
    LET r1 == DropNumberThen(version, ".")
        r2 == IF r1 = Nothing THEN Nothing ELSE DropNumberThen(r1[1], ".")
        n3 == IF r2 = Nothing THEN 0 ELSE DigitPrefixLen(r2[1])
    IN  /\ r2 # Nothing
        /\ n3 >= 1
        /\ MatchesVersionSuffix(SubSeq(r2[1], n3 + 1, Len(r2[1])))

validateVersion(version) == MatchesVersion(version)

validateFileSize(size) == ~(size > MAX_FILE_SIZE) /\ size # 0

\* The value of Number(s) that is not a number (the numbers Number yields here
\* are never negative).
NaN == -1

DigitValue(c) == (CHOOSE i \in 1..Len(DigitChars) : DigitChars[i] = c) - 1

RECURSIVE DecimalValue(_)
DecimalValue(s) ==
    IF Len(s) = 0 THEN 0
    ELSE 10 * DecimalValue(SubSeq(s, 1, Len(s) - 1)) + DigitValue(s[Len(s)])

\* Number(s) for the strings a version splits into: the empty string is 0, a
\* string of digits is its decimal value, anything else (such as "0-beta") is NaN.
Number(s) == IF AllChars(s, Digits) THEN DecimalValue(s) ELSE NaN

\* a.split(/[-+]/)[0]: the part of s before its first "-" or "+".
BeforeSuffix(s) ==
    LET cut == {i \in 1..Len(s) : s[i] \in {"-", "+"}}
    IN  IF cut = {} THEN s
        ELSE SubSeq(s, 1, (CHOOSE i \in cut : \A j \in cut : i <= j) - 1)

\* Element i of an array of numbers, NaN standing for undefined too (every
\* comparison with either is false).
At(parts, i) == IF i \in DOMAIN parts THEN parts[i] ELSE NaN

\* compareVersions: the three numeric components of the part before the suffix.
compareVersions(a, b) ==
    LET aParts == [i \in DOMAIN split(BeforeSuffix(a), ".") |-> Number(split(BeforeSuffix(a), ".")[i])]
        bParts == [i \in DOMAIN split(BeforeSuffix(b), ".") |-> Number(split(BeforeSuffix(b), ".")[i])]
        gt(x, y) == x # NaN /\ y # NaN /\ x > y
        lt(x, y) == x # NaN /\ y # NaN /\ x < y
        RECURSIVE from(_)
        from(i) ==
            IF i > 3 THEN 0
            ELSE IF gt(At(aParts, i), At(bParts, i)) THEN 1
            ELSE IF lt(At(aParts, i), At(bParts, i)) THEN -1
            ELSE from(i + 1)
    IN  from(1)

\* findLatestVersion: reduce keeping the first entry no later entry exceeds.
RECURSIVE reduceLatest(_, _)
reduceLatest(latest, rest) ==
    IF rest = <<>> THEN latest
    ELSE reduceLatest(
            IF compareVersions(Head(rest).version, latest.version) > 0
            THEN Head(rest) ELSE latest,
            Tail(rest))

\* null is Nothing.
findLatestVersion(versions) ==
    IF Len(versions) = 0 THEN Nothing
    ELSE Some(reduceLatest(Head(versions), Tail(versions)))

\* ------------------------------------------------------------- storage.ts

\* The comparator updateIndex sorts with: a.version.split(".").map(Number),
\* the first differing component decides, as bParts[i] - aParts[i]. A NaN
\* component differs from everything (NaN !== NaN) and makes the difference
\* NaN, which is returned as Nothing; a number d is returned as <<d>>.
indexComparator(a, b) ==
    LET aParts == [i \in DOMAIN split(a.version, ".") |-> Number(split(a.version, ".")[i])]
        bParts == [i \in DOMAIN split(b.version, ".") |-> Number(split(b.version, ".")[i])]
        RECURSIVE from(_)
        from(i) ==
            IF i > 3 THEN Some(0)
            ELSE IF At(aParts, i) = NaN \/ At(bParts, i) = NaN THEN Nothing
            ELSE IF At(aParts, i) # At(bParts, i) THEN Some(At(bParts, i) - At(aParts, i))
            ELSE from(i + 1)
    IN  from(1)

\* The sign Array.prototype.sort reads from the comparator: a NaN result counts
\* as +0 (ECMAScript SortCompare).
SortCompare(a, b) ==
    LET v == indexComparator(a, b)
    IN  IF v = Nothing THEN 0 ELSE IF v[1] < 0 THEN -1 ELSE IF v[1] > 0 THEN 1 ELSE 0

Reverse(s) == [i \in 1..Len(s) |-> s[Len(s) + 1 - i]]

\* The end of the run that starts the array (V8 CountAndMakeRun): strictly
\* descending when the second element compares below the first, else
\* non-descending.
RECURSIVE RunEnd(_, _, _)
RunEnd(arr, descending, idx) ==
    IF idx > Len(arr) THEN Len(arr)
    ELSE LET order == SortCompare(arr[idx], arr[idx - 1])
         IN  IF (descending /\ order >= 0) \/ (~descending /\ order < 0)
             THEN idx - 1
             ELSE RunEnd(arr, descending, idx + 1)

\* Where the pivot goes among arr[left .. right-1] (V8 BinaryInsertionSort).
RECURSIVE InsertionPoint(_, _, _, _)
InsertionPoint(arr, pivot, left, right) ==
    IF left < right
    THEN LET mid == left + ((right - left) \div 2)
         IN  IF SortCompare(pivot, arr[mid]) < 0
             THEN InsertionPoint(arr, pivot, left, mid)
             ELSE InsertionPoint(arr, pivot, mid + 1, right)
    ELSE left

RECURSIVE BinaryInsertionSort(_, _)
BinaryInsertionSort(arr, start) ==
    IF start > Len(arr) THEN arr
    ELSE LET pivot == arr[start]
             at    == InsertionPoint(arr, pivot, 1, start)
         IN  BinaryInsertionSort(
                 SubSeq(arr, 1, at - 1) \o <<pivot>> \o SubSeq(arr, at, start - 1)
                     \o SubSeq(arr, start + 1, Len(arr)),
                 start + 1)

\* index.versions.sort(comparator) as V8 runs it on an array of fewer than 64
\* elements: the leading run is found (and reversed when descending), the rest
\* is inserted by binary search. The sort is stable.
sortVersions(arr) ==
    IF Len(arr) < 2 THEN arr
    ELSE LET descending == SortCompare(arr[2], arr[1]) < 0
             runEnd     == RunEnd(arr, descending, 3)
             withRun    == IF descending
                           THEN Reverse(SubSeq(arr, 1, runEnd)) \o SubSeq(arr, runEnd + 1, Len(arr))
                           ELSE arr
         IN  BinaryInsertionSort(withRun, runEnd + 1)

\* "packages/@{scope}/{package}/{version}/package.tar.gz", as its path segments.
buildPackageKey(scope, packageName, version) ==
    <<"packages", <<"@">> \o scope, packageName, version, "package.tar.gz">>

buildMetadataKey(scope, packageName, version) ==
    <<"packages", <<"@">> \o scope, packageName, version, "metadata.json">>

buildIndexKey(scope, packageName) ==
    <<"packages", <<"@">> \o scope, packageName, "index.json">>

\* ------------------------------------------------------------------- state

VARIABLES
    bucket,       \* R2 bucket PACKAGES: object key -> object, for the keys stored
    permissions,  \* KV PERMISSIONS: user id -> list of capability names
    tokenCache,   \* KV TOKEN_CACHE: token (hash) -> cached GitHub user
    orgCache,     \* KV ORG_MEMBERSHIP_CACHE: <<token, user, org>> -> role string
    rate,         \* RateLimiter durable objects: ip -> [data, alarm]
    now,          \* Date.now()
    ticks,        \* clock advances so far
    served,       \* requests received so far
    faults,       \* store calls that have failed so far
    req,          \* worker -> the request it is handling, or its last response
    norm,         \* the last normalizeScope call: [in, out, again]
    authz,        \* the last checkPermissions call and its outcome
    parsed,       \* the last extractDependencies call: [op, packageData, result]
    expires,      \* KV expirations: <<namespace, key>> -> the time the entry expires
    resolved,     \* the last call of the identity resolver and its outcome
    created,      \* history: the client and the time of every 201 an upload returned
    limiter       \* the last direct RateLimiter call and its result

vars == <<bucket, permissions, tokenCache, orgCache, rate, now, ticks, served, faults,
          req, norm, authz, limiter, parsed, expires, resolved, created>>

\* ------------------------------------------------------------ the universe

Workers == {"w1", "w2"}

Ips == {"ip1"}

\* Bearer tokens a request may carry; "" is a missing or malformed header.
Tokens == {"tok-a", "tok-root", "tok-bad", ""}

\* What GET /user answers for a token: the user, or Nothing (401).
GitHubUserOf(token) ==
    CASE token = "tok-a"    -> Some([login |-> <<"a">>, id |-> 1])
      [] token = "tok-root" -> Some([login |-> <<"r">>, id |-> 2])
      [] OTHER              -> Nothing

Bodies == {"b1", "b2"}

\* packageData.byteLength
ByteLength(body) == IF body = "b1" THEN 10240 ELSE 2048

\* computeIntegrity: "sha256-" followed by the digest, one digest per content.
computeIntegrity(body) == <<"sha256", body>>

\* --------------------------------------------------------- package-parser.ts

\* Entries of a manifest's dependencies array.
MaxDeps == 2

QLL_INFO == <<"q", "l", "l", ".", "i", "n", "f", "o">>

\* String.prototype.endsWith
endsWith(s, suffix) ==
    /\ Len(s) >= Len(suffix)
    /\ SubSeq(s, Len(s) - Len(suffix) + 1, Len(s)) = suffix

\* A Record<string, string> is a set of <<key, value>> pairs, one per key.
\* dependencies[key] = value
Assign(m, key, value) == {p \in m : p[1] # key} \cup {<<key, value>>}

\* The body of the loop over qllInfo.dependencies: a string entry is cut at
\* its first colon, an object entry needs a name and a version, any other
\* entry is skipped with a warning.
AddDependency(m, dep) ==
    IF dep.kind = "string"
    THEN LET colon == FirstIndex(dep.text, ":")
         IN  IF colon = 0 THEN m
             ELSE Assign(m, SubSeq(dep.text, colon + 1, Len(dep.text)),
                            SubSeq(dep.text, 1, colon - 1))
    ELSE IF dep.kind = "object" /\ dep.name # <<>> /\ dep.version # <<>>
         THEN Assign(m, dep.name, dep.version)
         ELSE m

RECURSIVE readDependencies(_, _)
readDependencies(deps, m) ==
    IF deps = <<>> THEN m
    ELSE readDependencies(Tail(deps), AddDependency(m, Head(deps)))

\* The first entry of the unzipped archive whose lower-cased path ends with
\* "qll.info", Nothing when there is none.
FindManifest(files) ==
    LET hits == {i \in 1..Len(files) : endsWith(toLowerCase(files[i].path), QLL_INFO)}
    IN  IF hits = {} THEN Nothing
        ELSE Some(files[CHOOSE i \in hits : \A j \in hits : i <= j].content)

\* Every failure answered with the empty map.
extractDependenciesLenient(packageData) ==
    IF ~packageData.unzips THEN Some({})
    ELSE LET found == FindManifest(packageData.files)
         IN  IF found = Nothing THEN Some({})
             ELSE IF ~found[1].parses THEN Some({})
             ELSE IF found[1].dependencies = Nothing THEN Some({})
             ELSE Some(readDependencies(found[1].dependencies[1], {}))

\* extractDependencies: Some(map) when it returns, Nothing when it throws
\* (unzipSync fails, no qll.info, JSON.parse fails).
extractDependencies(packageData) ==
    IF ~packageData.unzips THEN Nothing
    ELSE LET found == FindManifest(packageData.files)
         IN  IF found = Nothing THEN Nothing
             ELSE IF ~found[1].parses THEN Nothing
             ELSE IF found[1].dependencies = Nothing THEN Some({})
             ELSE Some(readDependencies(found[1].dependencies[1], {}))

\* The content of a file: parses is whether JSON.parse accepts it,
\* dependencies is its dependencies array when it has one.
Unparsable == [parses |-> FALSE, dependencies |-> Nothing]

NoDependencies == [parses |-> TRUE, dependencies |-> Nothing]

WithDependencies(deps) == [parses |-> TRUE, dependencies |-> Some(deps)]

StringEntry(text) == [kind |-> "string", text |-> text, name |-> <<>>, version |-> <<>>]

ObjectEntry(name, version) == [kind |-> "object", text |-> <<>>, name |-> name, version |-> version]

OtherEntry == [kind |-> "other", text |-> <<>>, name |-> <<>>, version |-> <<>>]

File(path, content) == [path |-> path, content |-> content]

README == <<"R", "E", "A", "D", "M", "E">>

\* The archive of an uploaded body: b1 holds a manifest with one dependency,
\* b2 holds no manifest.
PackageData(body) ==
    IF body = "b1"
    THEN [unzips |-> TRUE,
          files  |-> <<File(QLL_INFO, WithDependencies(
                          <<StringEntry(<<"^", "1", ":", "@", "a", "/", "d">>)>>))>>]
    ELSE [unzips |-> TRUE, files |-> <<File(README, Unparsable)>>]

V_1_0_2 == <<"1", ".", "0", ".", "2">>

V_1_0_1_b == <<"1", ".", "0", ".", "1", "-", "b">>

V_bad == <<"1", ".", "0">>

\* ----------------------------------------------------------- permissions.ts

\* put(key, value) on a bucket or a KV namespace
Put(b, key, value) == [k \in DOMAIN b \cup {key} |-> IF k = key THEN value ELSE b[k]]

\* delete(key) on a bucket or a KV namespace
Delete(b, key) == [k \in DOMAIN b \ {key} |-> b[k]]

TOKEN_CACHE_TTL == 900

ORG_MEMBERSHIP_CACHE_TTL == 3600

\* put(key, value, {expirationTtl}) as the expirations see it: the entries of
\* the namespace that were written (new or changed) expire ttl seconds from
\* t, those that were deleted have no expiration any more.
Stamped(exp, namespace, old, new, ttl, t) ==
    LET written == {key \in DOMAIN new : key \notin DOMAIN old \/ old[key] # new[key]}
        kept    == {k \in DOMAIN exp : k[1] # namespace \/ k[2] \in DOMAIN new}
    IN  [k \in kept \cup {<<namespace, key>> : key \in written} |->
            IF k[1] = namespace /\ k[2] \in written THEN t + ttl * 1000 ELSE exp[k]]

\* The entries of a namespace that have not expired at time t.
Unexpired(exp, namespace, cache, t) ==
    [key \in {k \in DOMAIN cache : <<namespace, k>> \in DOMAIN exp => exp[<<namespace, k>>] > t}
        |-> cache[key]]

getUserPermissions(userId) ==
    IF userId \in DOMAIN permissions THEN permissions[userId] ELSE <<>>

hasPermission(userId, permission) == permission \in Range(getUserPermissions(userId))

\* Any capability taken for the administrator's.
isAdminAnyPermission(userId) == Len(getUserPermissions(userId)) > 0

isAdmin(userId) == hasPermission(userId, "admin")

\* grantPermission: the store afterwards; the capability is appended to the
\* user's list unless the list holds it.
grantPermission(userId, permission) ==
    IF hasPermission(userId, permission) THEN permissions
    ELSE Put(permissions, userId, Append(getUserPermissions(userId), permission))

\* revokePermission writing the list that is left also when it is empty.
revokePermissionKeepingKey(userId, permission) ==
    Put(permissions, userId, SelectSeq(getUserPermissions(userId), LAMBDA p : p # permission))

\* revokePermission: the store afterwards; the capability is filtered out of
\* the user's list and the key is deleted when nothing is left.
revokePermission(userId, permission) ==
    LET filteredPermissions == SelectSeq(getUserPermissions(userId), LAMBDA p : p # permission)
    IN  IF Len(filteredPermissions) = 0 THEN Delete(permissions, userId)
        ELSE Put(permissions, userId, filteredPermissions)

\* ----------------------------------------------------------- RateLimiter.ts

UPLOAD_LIMIT == 10

WINDOW_MS == 3600000

ALARM_DELAY_MS == 1000

Max(a, b) == IF a >= b THEN a ELSE b

\* No window stored, or the stored one has expired.
NoLiveWindow(obj, t) == obj.data = Nothing \/ t >= obj.data[1].resetAt

\* checkLimit comparing with <= where the code compares with <.
checkLimitOffByOne(obj, t) ==
    IF NoLiveWindow(obj, t)
    THEN [allowed |-> TRUE, remaining |-> UPLOAD_LIMIT - 1, resetAt |-> t + WINDOW_MS]
    ELSE [allowed   |-> obj.data[1].count <= UPLOAD_LIMIT,
          remaining |-> Max(0, UPLOAD_LIMIT - obj.data[1].count),
          resetAt   |-> obj.data[1].resetAt]

checkLimit(obj, t) ==
    IF NoLiveWindow(obj, t)
    THEN [allowed |-> TRUE, remaining |-> UPLOAD_LIMIT - 1, resetAt |-> t + WINDOW_MS]
    ELSE [allowed   |-> obj.data[1].count < UPLOAD_LIMIT,
          remaining |-> Max(0, UPLOAD_LIMIT - obj.data[1].count),
          resetAt   |-> obj.data[1].resetAt]

\* increment() adding to the count of an expired window instead of starting
\* again from 1.
incrementMerging(obj, t) ==
    IF NoLiveWindow(obj, t)
    THEN [data  |-> Some([count   |-> IF obj.data = Nothing THEN 1
                                      ELSE obj.data[1].count + 1,
                          resetAt |-> t + WINDOW_MS]),
          alarm |-> Some(t + WINDOW_MS + ALARM_DELAY_MS)]
    ELSE [obj EXCEPT !.data = Some([count   |-> obj.data[1].count + 1,
                                    resetAt |-> obj.data[1].resetAt])]

\* The durable object's storage after increment().
increment(obj, t) ==
    IF NoLiveWindow(obj, t)
    THEN [data  |-> Some([count |-> 1, resetAt |-> t + WINDOW_MS]),
          alarm |-> Some(t + WINDOW_MS + ALARM_DELAY_MS)]
    ELSE [obj EXCEPT !.data = Some([count   |-> obj.data[1].count + 1,
                                    resetAt |-> obj.data[1].resetAt])]

reset(obj) == [data |-> Nothing, alarm |-> Nothing]

getStatus(obj, t) ==
    IF NoLiveWindow(obj, t) THEN Nothing
    ELSE Some([count     |-> obj.data[1].count,
               resetAt   |-> obj.data[1].resetAt,
               remaining |-> Max(0, UPLOAD_LIMIT - obj.data[1].count)])

\* An alarm handler that deletes nothing.
alarmIdle(obj, t) == [obj EXCEPT !.alarm = Nothing]

\* The alarm handler: expired data is deleted. The alarm that fired is gone.
alarm(obj, t) ==
    IF obj.data # Nothing /\ t >= obj.data[1].resetAt
    THEN [data |-> Nothing, alarm |-> Nothing]
    ELSE [obj EXCEPT !.alarm = Nothing]

\* -------------------------------------------------------------- requests

\* A worker with no request.
Idle ==
    [kind |-> "none", pc |-> "idle", ip |-> "", token |-> "", scope |-> <<>>,
     pkg |-> <<>>, version |-> <<>>, user |-> Nothing, body |-> "",
     rateLimit |-> Nothing, metadata |-> Nothing, index |-> Nothing,
     status |-> 0, error |-> "", out |-> Nothing,
     target |-> <<>>,    \* the :user parameter of a permission request
     permission |-> "", \* the :permission parameter of a permission request
     length |-> 0,       \* the Content-Length header of the request
     failed |-> FALSE,   \* a storage call of the request failed and ended it
     indexFailed |-> FALSE, \* history: the index update of the upload failed
     pre |-> Nothing,    \* history: the bucket when the request arrived
     limited |-> FALSE,  \* history: the client's window was exhausted when the request arrived
     hit |-> FALSE,      \* history: the lookup was answered from the cache
     userId |-> 0,       \* the user a grant or revoke is about
     held |-> Nothing,   \* the capability list a grant or revoke read
     undone |-> FALSE,   \* history: the capability of this grant was being revoked since
     probed |-> Nothing] \* history: the bucket when the upload looked for the version

\* Response.json({success: false, error, ...}, {status}), or the final response.
Respond(r, status, error) == [r EXCEPT !.pc = "done", !.status = status, !.error = error]

\* A worker takes a request when it has none in progress, while fewer than
\* MaxRequests have been received.
CanBegin(w) == req[w].pc \in {"idle", "done"} /\ served < MaxRequests

At_(w, kind, pc) == req[w].kind = kind /\ req[w].pc = pc

\* A store call may fail while fewer than MaxFaults have.
FaultChoices == IF faults < MaxFaults THEN {FALSE, TRUE} ELSE {FALSE}

\* validateGitHubToken (the resolver the upload and delete endpoints call, which
\* yields the GitHub user): the cached user, else what GET /user answers, cached
\* on success. [user, cache]
validateGitHubToken(token) ==
    IF token \in DOMAIN tokenCache
    THEN [user |-> Some(tokenCache[token]), cache |-> tokenCache]
    ELSE IF GitHubUserOf(token) = Nothing
         THEN [user |-> Nothing, cache |-> tokenCache]
         ELSE [user  |-> GitHubUserOf(token),
               cache |-> Put(tokenCache, token, GitHubUserOf(token)[1])]

\* packageVersionExists: bucket.head(archive key) !== null
packageVersionExists(b, scope, packageName, version) ==
    buildPackageKey(scope, packageName, version) \in DOMAIN b

\* ----- POST /packages/:scope/:package/:version (PackageUpload.handle)

\* Steps 0 and 1: the client address and the bearer token must be present.
BeginUpload(w, U) ==
    /\ CanBegin(w)
    /\ \E ip \in U.ips, token \in U.tokens, scope \in U.scopes,
          pkg \in U.pkgs, version \in U.versions, contentLength \in U.lengths :
          LET r == [Idle EXCEPT !.kind = "upload", !.ip = ip, !.token = token,
                                !.scope = scope, !.pkg = pkg, !.version = version,
                                !.length = contentLength, !.pre = Some(bucket),
                                !.limited = (ip # "" /\ ~checkLimit(rate[ip], now).allowed)]
          IN  req' = [req EXCEPT ![w] =
                        IF ip = "" THEN Respond(r, 400, "bad_request")
                        ELSE IF token = "" THEN Respond(r, 401, "unauthorized")
                        ELSE [r EXCEPT !.pc = "validateToken"]]
    /\ served' = served + 1
    /\ UNCHANGED <<bucket, permissions, tokenCache, orgCache, rate, now, ticks,
                   faults, norm, authz, limiter, parsed, expires, resolved, created>>

\* Step 2: the token is resolved to a GitHub user.
UploadValidateToken(w) ==
    /\ At_(w, "upload", "validateToken")
    /\ LET v == validateGitHubToken(req[w].token)
       IN  /\ tokenCache' = v.cache
           /\ req' = [req EXCEPT ![w] =
                        IF v.user = Nothing THEN Respond(@, 401, "unauthorized")
                        ELSE [@ EXCEPT !.pc = "authorize", !.user = v.user]]
    /\ UNCHANGED <<bucket, permissions, orgCache, rate, now, ticks, served, faults,
                   norm, authz, limiter, parsed, resolved, created>>
    /\ expires' = Stamped(expires, "token", tokenCache, tokenCache', TOKEN_CACHE_TTL, now)

\* Step 4's decision: admins may upload to any scope, others to the scope that
\* is their login.
UploadAllowed(user, scope) == isAdmin(user.id) \/ scope = user.login

\* Steps 3 to 5 with the version format checked before the scope's owner.
UploadAuthorizeFormatFirst(w) ==
    /\ At_(w, "upload", "authorize")
    /\ LET r == req[w]
       IN  req' = [req EXCEPT ![w] =
             IF ~validatePackageName(buildPackageName(r.scope, r.pkg))
             THEN Respond(r, 403, "invalid_package_name")
             ELSE IF ~validateVersion(r.version)
             THEN Respond(r, 403, "invalid_version")
             ELSE IF ~UploadAllowed(r.user[1], r.scope)
             THEN Respond(r, 403, "forbidden")
             ELSE [r EXCEPT !.pc = "exists"]]
    /\ UNCHANGED <<bucket, permissions, tokenCache, orgCache, rate, now, ticks, served,
                   faults, norm, authz, limiter, parsed, expires, resolved, created>>

\* Steps 3 to 5: the package name, the scope's owner, the version format.
UploadAuthorize(w) ==
    /\ At_(w, "upload", "authorize")
    /\ LET r == req[w]
       IN  req' = [req EXCEPT ![w] =
             IF ~validatePackageName(buildPackageName(r.scope, r.pkg))
             THEN Respond(r, 403, "invalid_package_name")
             ELSE IF ~UploadAllowed(r.user[1], r.scope)
             THEN Respond(r, 403, "forbidden")
             ELSE IF ~validateVersion(r.version)
             THEN Respond(r, 403, "invalid_version")
             ELSE [r EXCEPT !.pc = "exists"]]
    /\ UNCHANGED <<bucket, permissions, tokenCache, orgCache, rate, now, ticks, served,
                   faults, norm, authz, limiter, parsed, expires, resolved, created>>

\* A probe that finds no version stored.
UploadExistsNever(b, scope, packageName, version) == FALSE

\* A probe that looks for the metadata document instead of the archive.
UploadExistsByMetadata(b, scope, packageName, version) ==
    buildMetadataKey(scope, packageName, version) \in DOMAIN b

UploadExistsProbe(b, scope, packageName, version) ==
    packageVersionExists(b, scope, packageName, version)

\* Step 6: a version whose archive is stored is refused.
UploadExists(w) ==
    /\ At_(w, "upload", "exists")
    /\ LET r == req[w]
           p == [r EXCEPT !.probed = Some(bucket)]
       IN  req' = [req EXCEPT ![w] =
             IF UploadExistsProbe(bucket, r.scope, r.pkg, r.version)
             THEN Respond(p, 409, "version_exists")
             ELSE [p EXCEPT !.pc = "rateCheck"]]
    /\ UNCHANGED <<bucket, permissions, tokenCache, orgCache, rate, now, ticks, served,
                   faults, norm, authz, limiter, parsed, expires, resolved, created>>

\* Step 7 letting every upload through.
UploadRateCheckSkipped(w) ==
    /\ At_(w, "upload", "rateCheck")
    /\ LET r  == req[w]
           rl == checkLimit(rate[r.ip], now)
       IN  req' = [req EXCEPT ![w] = [r EXCEPT !.pc = "store", !.rateLimit = Some(rl)]]
    /\ UNCHANGED <<bucket, permissions, tokenCache, orgCache, rate, now, ticks, served,
                   faults, norm, authz, limiter, parsed, expires, resolved, created>>

\* Step 7 counting the upload when it checks the limit.
UploadRateCheckCounting(w) ==
    /\ At_(w, "upload", "rateCheck")
    /\ LET r  == req[w]
           rl == checkLimit(rate[r.ip], now)
       IN  /\ req' = [req EXCEPT ![w] =
                        IF ~rl.allowed THEN Respond(r, 429, "rate_limit_exceeded")
                        ELSE [r EXCEPT !.pc = "store", !.rateLimit = Some(rl)]]
           /\ rate' = [rate EXCEPT ![r.ip] = increment(@, now)]
    /\ UNCHANGED <<bucket, permissions, tokenCache, orgCache, now, ticks, served,
                   faults, norm, authz, limiter, parsed, expires, resolved, created>>

\* Step 7: checkUploadRateLimit.
UploadRateCheck(w) ==
    /\ At_(w, "upload", "rateCheck")
    /\ LET r  == req[w]
           rl == checkLimit(rate[r.ip], now)
       IN  req' = [req EXCEPT ![w] =
             IF ~rl.allowed THEN Respond(r, 429, "rate_limit_exceeded")
             ELSE [r EXCEPT !.pc = "store", !.rateLimit = Some(rl)]]
    /\ UNCHANGED <<bucket, permissions, tokenCache, orgCache, rate, now, ticks, served,
                   faults, norm, authz, limiter, parsed, expires, resolved, created>>

\* Steps 8 to 11: the Content-Length header is validated, the body is read and
\* hashed, and the archive is stored.
UploadStore(w, U) ==
    /\ At_(w, "upload", "store")
    /\ \E body \in U.bodies \cup {"unreadable"}, fail \in FaultChoices :
          LET r == [req[w] EXCEPT !.body = body]
          IN  IF ~validateFileSize(r.length)
              THEN /\ req' = [req EXCEPT ![w] = Respond(r, 413, "payload_too_large")]
                   /\ UNCHANGED <<bucket, faults>>
              ELSE IF body = "unreadable"
              THEN /\ req' = [req EXCEPT ![w] = Respond(r, 400, "invalid_request")]
                   /\ UNCHANGED <<bucket, faults>>
              ELSE IF fail
              THEN /\ req' = [req EXCEPT ![w] = Respond([r EXCEPT !.failed = TRUE], 500, "internal_error")]
                   /\ faults' = faults + 1
                   /\ UNCHANGED bucket
              ELSE /\ bucket' = Put(bucket, buildPackageKey(r.scope, r.pkg, r.version), body)
                   /\ req' = [req EXCEPT ![w] = [r EXCEPT !.pc = "storeMetadata"]]
                   /\ UNCHANGED faults
    /\ UNCHANGED <<permissions, tokenCache, orgCache, rate, now, ticks, served,
                   norm, authz, limiter, parsed, expires, resolved, created>>

\* The metadata document of Step 13; a failed extraction leaves {} dependencies.
BuildMetadata(r, t) ==
    [name         |-> buildPackageName(r.scope, r.pkg),
     version      |-> r.version,
     integrity    |-> computeIntegrity(r.body),
     size         |-> ByteLength(r.body),
     uploadedAt   |-> t,
     uploadedBy   |-> r.user[1].login,
     dependencies |-> IF extractDependencies(PackageData(r.body)) = Nothing THEN {}
                      ELSE extractDependencies(PackageData(r.body))[1]]

\* Steps 12 and 13 with the archive removed again when the metadata document
\* cannot be stored.
UploadStoreMetadataCompensating(w) ==
    /\ At_(w, "upload", "storeMetadata")
    /\ \E fail \in FaultChoices :
          LET r  == req[w]
              md == BuildMetadata(r, now)
          IN  IF fail
              THEN /\ req' = [req EXCEPT ![w] = Respond([r EXCEPT !.failed = TRUE], 500, "internal_error")]
                   /\ faults' = faults + 1
                   /\ bucket' = Delete(bucket, buildPackageKey(r.scope, r.pkg, r.version))
              ELSE /\ bucket' = Put(bucket, buildMetadataKey(r.scope, r.pkg, r.version), md)
                   /\ req' = [req EXCEPT ![w] = [r EXCEPT !.pc = "indexGet", !.metadata = Some(md)]]
                   /\ UNCHANGED faults
    /\ UNCHANGED <<permissions, tokenCache, orgCache, rate, now, ticks, served,
                   norm, authz, limiter, parsed, expires, resolved, created>>

\* Steps 12 and 13 with the extraction error not caught.
UploadStoreMetadataUncaught(w) ==
    /\ At_(w, "upload", "storeMetadata")
    /\ \E fail \in FaultChoices :
          LET r  == req[w]
              md == BuildMetadata(r, now)
          IN  IF extractDependencies(PackageData(r.body)) = Nothing
              THEN /\ req' = [req EXCEPT ![w] = Respond(r, 500, "internal_error")]
                   /\ UNCHANGED <<bucket, faults>>
              ELSE IF fail
              THEN /\ req' = [req EXCEPT ![w] = Respond([r EXCEPT !.failed = TRUE], 500, "internal_error")]
                   /\ faults' = faults + 1
                   /\ UNCHANGED bucket
              ELSE /\ bucket' = Put(bucket, buildMetadataKey(r.scope, r.pkg, r.version), md)
                   /\ req' = [req EXCEPT ![w] = [r EXCEPT !.pc = "indexGet", !.metadata = Some(md)]]
                   /\ UNCHANGED faults
    /\ UNCHANGED <<permissions, tokenCache, orgCache, rate, now, ticks, served,
                   norm, authz, limiter, parsed, expires, resolved, created>>

\* Steps 12 and 13: dependencies are extracted, the metadata document is stored.
UploadStoreMetadata(w) ==
    /\ At_(w, "upload", "storeMetadata")
    /\ \E fail \in FaultChoices :
          LET r  == req[w]
              md == BuildMetadata(r, now)
          IN  IF fail
              THEN /\ req' = [req EXCEPT ![w] = Respond([r EXCEPT !.failed = TRUE], 500, "internal_error")]
                   /\ faults' = faults + 1
                   /\ UNCHANGED bucket
              ELSE /\ bucket' = Put(bucket, buildMetadataKey(r.scope, r.pkg, r.version), md)
                   /\ req' = [req EXCEPT ![w] = [r EXCEPT !.pc = "indexGet", !.metadata = Some(md)]]
                   /\ UNCHANGED faults
    /\ UNCHANGED <<permissions, tokenCache, orgCache, rate, now, ticks, served,
                   norm, authz, limiter, parsed, expires, resolved, created>>

\* updateIndex appending the version also when the index lists it.
UpdatedIndexAppending(existing, scope, packageName, metadata) ==
    LET index == IF existing # Nothing THEN existing[1]
                 ELSE [name |-> buildPackageName(scope, packageName), versions |-> <<>>]
        entry == [version      |-> metadata.version,
                  integrity    |-> metadata.integrity,
                  size         |-> metadata.size,
                  uploadedAt   |-> metadata.uploadedAt,
                  dependencies |-> metadata.dependencies]
    IN  [index EXCEPT !.versions = sortVersions(Append(index.versions, entry))]

\* updateIndex between its read and its write: the index read (or a new one)
\* with the version appended and the list sorted, unless it lists the version.
UpdatedIndex(existing, scope, packageName, metadata) ==
    LET index == IF existing # Nothing THEN existing[1]
                 ELSE [name |-> buildPackageName(scope, packageName), versions |-> <<>>]
        versionExists == \E i \in 1..Len(index.versions) :
                             index.versions[i].version = metadata.version
        entry == [version      |-> metadata.version,
                  integrity    |-> metadata.integrity,
                  size         |-> metadata.size,
                  uploadedAt   |-> metadata.uploadedAt,
                  dependencies |-> metadata.dependencies]
    IN  IF ~versionExists
        THEN [index EXCEPT !.versions = sortVersions(Append(index.versions, entry))]
        ELSE index

\* getIndex: the index document, Nothing when there is none.
getIndex(b, scope, packageName) ==
    IF buildIndexKey(scope, packageName) \in DOMAIN b
    THEN Some(b[buildIndexKey(scope, packageName)]) ELSE Nothing

\* updateIndex, its read, with a failure ending the upload.
UploadIndexGetFatal(w) ==
    /\ At_(w, "upload", "indexGet")
    /\ \E fail \in FaultChoices :
          LET r == req[w]
          IN  IF fail
              THEN /\ req' = [req EXCEPT ![w] =
                                Respond([r EXCEPT !.failed = TRUE, !.indexFailed = TRUE],
                                        500, "internal_error")]
                   /\ faults' = faults + 1
              ELSE /\ req' = [req EXCEPT ![w] = [r EXCEPT
                                !.pc = "indexPut",
                                !.index = Some(UpdatedIndex(getIndex(bucket, r.scope, r.pkg),
                                                            r.scope, r.pkg, r.metadata[1]))]]
                   /\ UNCHANGED faults
    /\ UNCHANGED <<bucket, permissions, tokenCache, orgCache, rate, now, ticks, served,
                   norm, authz, limiter, parsed, expires, resolved, created>>

\* updateIndex, its read. A failure is logged and the upload goes on.
UploadIndexGet(w) ==
    /\ At_(w, "upload", "indexGet")
    /\ \E fail \in FaultChoices :
          LET r == req[w]
          IN  IF fail
              THEN /\ req' = [req EXCEPT ![w] = [r EXCEPT !.pc = "increment",
                                                            !.indexFailed = TRUE]]
                   /\ faults' = faults + 1
              ELSE /\ req' = [req EXCEPT ![w] = [r EXCEPT
                                !.pc = "indexPut",
                                !.index = Some(UpdatedIndex(getIndex(bucket, r.scope, r.pkg),
                                                            r.scope, r.pkg, r.metadata[1]))]]
                   /\ UNCHANGED faults
    /\ UNCHANGED <<bucket, permissions, tokenCache, orgCache, rate, now, ticks, served,
                   norm, authz, limiter, parsed, expires, resolved, created>>

\* updateIndex writing the version into the index as it is at the write, not
\* as it was read.
UploadIndexPutMerging(w) ==
    /\ At_(w, "upload", "indexPut")
    /\ \E fail \in FaultChoices :
          LET r == req[w]
          IN  /\ req' = [req EXCEPT ![w] = [r EXCEPT !.pc = "increment", !.indexFailed = fail]]
              /\ IF fail
                 THEN faults' = faults + 1 /\ UNCHANGED bucket
                 ELSE /\ bucket' = Put(bucket, buildIndexKey(r.scope, r.pkg),
                                       UpdatedIndex(getIndex(bucket, r.scope, r.pkg),
                                                    r.scope, r.pkg, r.metadata[1]))
                      /\ UNCHANGED faults
    /\ UNCHANGED <<permissions, tokenCache, orgCache, rate, now, ticks, served,
                   norm, authz, limiter, parsed, expires, resolved, created>>

\* updateIndex, its write. A failure is logged and the upload goes on.
UploadIndexPut(w) ==
    /\ At_(w, "upload", "indexPut")
    /\ \E fail \in FaultChoices :
          LET r == req[w]
          IN  /\ req' = [req EXCEPT ![w] = [r EXCEPT !.pc = "increment", !.indexFailed = fail]]
              /\ IF fail
                 THEN faults' = faults + 1 /\ UNCHANGED bucket
                 ELSE /\ bucket' = Put(bucket, buildIndexKey(r.scope, r.pkg), r.index[1])
                      /\ UNCHANGED faults
    /\ UNCHANGED <<permissions, tokenCache, orgCache, rate, now, ticks, served,
                   norm, authz, limiter, parsed, expires, resolved, created>>

\* Steps 14 and 15: the client's counter is incremented, 201 is returned.
UploadIncrement(w) ==
    /\ At_(w, "upload", "increment")
    /\ LET r == req[w]
       IN  /\ rate' = [rate EXCEPT ![r.ip] = increment(@, now)]
           /\ req' = [req EXCEPT ![w] =
                        [Respond(r, 201, "") EXCEPT
                            !.out = Some([name      |-> buildPackageName(r.scope, r.pkg),
                                          version   |-> r.version,
                                          integrity |-> computeIntegrity(r.body),
                                          size      |-> ByteLength(r.body),
                                          remaining |-> r.rateLimit[1].remaining])]]
           /\ created' = Append(created, [ip |-> r.ip, at |-> now])
    /\ UNCHANGED <<bucket, permissions, tokenCache, orgCache, now, ticks, served, faults,
                   norm, authz, limiter, parsed, expires, resolved>>

\* ----- DELETE /packages/:scope/:package/:version (PackageVersionDelete.handle)

\* Step 1: the bearer token must be present.
BeginDelete(w, U) ==
    /\ CanBegin(w)
    /\ \E token \in U.tokens, scope \in U.scopes, pkg \in U.pkgs, version \in U.versions :
          LET r == [Idle EXCEPT !.kind = "delete", !.token = token, !.scope = scope,
                                !.pkg = pkg, !.version = version, !.pre = Some(bucket)]
          IN  req' = [req EXCEPT ![w] =
                        IF token = "" THEN Respond(r, 401, "unauthorized")
                        ELSE [r EXCEPT !.pc = "validateToken"]]
    /\ served' = served + 1
    /\ UNCHANGED <<bucket, permissions, tokenCache, orgCache, rate, now, ticks,
                   faults, norm, authz, limiter, parsed, expires, resolved, created>>

\* Step 2: the token is resolved to a GitHub user.
DeleteValidateToken(w) ==
    /\ At_(w, "delete", "validateToken")
    /\ LET v == validateGitHubToken(req[w].token)
       IN  /\ tokenCache' = v.cache
           /\ req' = [req EXCEPT ![w] =
                        IF v.user = Nothing THEN Respond(@, 401, "unauthorized")
                        ELSE [@ EXCEPT !.pc = "authorize", !.user = v.user]]
    /\ UNCHANGED <<bucket, permissions, orgCache, rate, now, ticks, served, faults,
                   norm, authz, limiter, parsed, resolved, created>>
    /\ expires' = Stamped(expires, "token", tokenCache, tokenCache', TOKEN_CACHE_TTL, now)

\* Step 5's decision: admins may delete any package, others their own.
DeleteAllowed(user, scope) == isAdmin(user.id) \/ scope = user.login

\* Steps 3 to 5: the package name, the version format, the scope's owner.
DeleteAuthorize(w) ==
    /\ At_(w, "delete", "authorize")
    /\ LET r == req[w]
       IN  req' = [req EXCEPT ![w] =
             IF ~validatePackageName(buildPackageName(r.scope, r.pkg))
             THEN Respond(r, 400, "invalid_package_name")
             ELSE IF ~validateVersion(r.version)
             THEN Respond(r, 400, "invalid_version")
             ELSE IF ~DeleteAllowed(r.user[1], r.scope)
             THEN Respond(r, 403, "forbidden")
             ELSE [r EXCEPT !.pc = "exists"]]
    /\ UNCHANGED <<bucket, permissions, tokenCache, orgCache, rate, now, ticks, served,
                   faults, norm, authz, limiter, parsed, expires, resolved, created>>

\* deletePackageVersion, its existence check: a missing archive is a 404.
DeleteExists(w) ==
    /\ At_(w, "delete", "exists")
    /\ LET r == req[w]
       IN  req' = [req EXCEPT ![w] =
             IF ~packageVersionExists(bucket, r.scope, r.pkg, r.version)
             THEN Respond(r, 404, "not_found")
             ELSE [r EXCEPT !.pc = "deleteArchive"]]
    /\ UNCHANGED <<bucket, permissions, tokenCache, orgCache, rate, now, ticks, served,
                   faults, norm, authz, limiter, parsed, expires, resolved, created>>

\* deletePackageVersion: the archive is deleted.
DeleteArchive(w) ==
    /\ At_(w, "delete", "deleteArchive")
    /\ \E fail \in FaultChoices :
          LET r == req[w]
          IN  IF fail
              THEN /\ req' = [req EXCEPT ![w] = Respond(r, 500, "internal_error")]
                   /\ faults' = faults + 1
                   /\ UNCHANGED bucket
              ELSE /\ bucket' = Delete(bucket, buildPackageKey(r.scope, r.pkg, r.version))
                   /\ req' = [req EXCEPT ![w] = [r EXCEPT !.pc = "deleteMetadata"]]
                   /\ UNCHANGED faults
    /\ UNCHANGED <<permissions, tokenCache, orgCache, rate, now, ticks, served,
                   norm, authz, limiter, parsed, expires, resolved, created>>

\* deletePackageVersion: the metadata document is deleted.
DeleteMetadata(w) ==
    /\ At_(w, "delete", "deleteMetadata")
    /\ \E fail \in FaultChoices :
          LET r == req[w]
          IN  IF fail
              THEN /\ req' = [req EXCEPT ![w] = Respond(r, 500, "internal_error")]
                   /\ faults' = faults + 1
                   /\ UNCHANGED bucket
              ELSE /\ bucket' = Delete(bucket, buildMetadataKey(r.scope, r.pkg, r.version))
                   /\ req' = [req EXCEPT ![w] = [r EXCEPT !.pc = "indexGet"]]
                   /\ UNCHANGED faults
    /\ UNCHANGED <<permissions, tokenCache, orgCache, rate, now, ticks, served,
                   norm, authz, limiter, parsed, expires, resolved, created>>

\* index.versions.filter((v) => v.version !== version)
WithoutVersion(index, version) ==
    [index EXCEPT !.versions = SelectSeq(@, LAMBDA v : v.version # version)]

\* deletePackageVersion: the index is read; with no index the delete is complete.
DeleteIndexGet(w) ==
    /\ At_(w, "delete", "indexGet")
    /\ \E fail \in FaultChoices :
          LET r     == req[w]
              index == getIndex(bucket, r.scope, r.pkg)
          IN  IF fail
              THEN /\ req' = [req EXCEPT ![w] = Respond(r, 500, "internal_error")]
                   /\ faults' = faults + 1
              ELSE /\ req' = [req EXCEPT ![w] =
                                IF index = Nothing THEN Respond(r, 200, "")
                                ELSE [r EXCEPT !.pc = "indexWrite",
                                               !.index = Some(WithoutVersion(index[1], r.version))]]
                   /\ UNCHANGED faults
    /\ UNCHANGED <<bucket, permissions, tokenCache, orgCache, rate, now, ticks, served,
                   norm, authz, limiter, parsed, expires, resolved, created>>

\* An index write of a delete that stores the index also when no version is
\* left in it.
IndexAfterRemoveKeepingEmpty(b, key, index) == Put(b, key, index)

\* The bucket after the index write of a delete: an index left without versions
\* is deleted, any other is stored.
IndexAfterRemove(b, key, index) ==
    IF Len(index.versions) = 0 THEN Delete(b, key) ELSE Put(b, key, index)

\* deletePackageVersion: the index is deleted or rewritten.
DeleteIndexWrite(w) ==
    /\ At_(w, "delete", "indexWrite")
    /\ \E fail \in FaultChoices :
          LET r == req[w]
          IN  IF fail
              THEN /\ req' = [req EXCEPT ![w] = Respond(r, 500, "internal_error")]
                   /\ faults' = faults + 1
                   /\ UNCHANGED bucket
              ELSE /\ bucket' = IndexAfterRemove(bucket, buildIndexKey(r.scope, r.pkg), r.index[1])
                   /\ req' = [req EXCEPT ![w] = Respond(r, 200, "")]
                   /\ UNCHANGED faults
    /\ UNCHANGED <<permissions, tokenCache, orgCache, rate, now, ticks, served,
                   norm, authz, limiter, parsed, expires, resolved, created>>

\* ----- GET /packages/:scope/:package (PackageList.handle)

\* getVersionList: the index's versions and the latest of them.
getVersionList(b, scope, packageName) ==
    LET index == getIndex(b, scope, packageName)
    IN  IF index = Nothing THEN Nothing
        ELSE Some([versions |-> index[1].versions,
                   latest   |-> findLatestVersion(index[1].versions)])

V_0_0_0 == <<"0", ".", "0", ".", "0">>

\* The response to a version-list request: 404, or the versions and the latest
\* (versionList.latest || "0.0.0").
PackageListResponse(b, rawScope, packageName) ==
    LET scope       == normalizeScope(rawScope)
        versionList == getVersionList(b, scope, packageName)
    IN  IF versionList = Nothing
        THEN [status |-> 404, out |-> Nothing]
        ELSE [status |-> 200,
              out    |-> Some([name     |-> buildPackageName(scope, packageName),
                               versions |-> versionList[1].versions,
                               latest   |-> IF versionList[1].latest = Nothing
                                            THEN [version |-> V_0_0_0]
                                            ELSE versionList[1].latest[1]])]

PackageList(w, U) ==
    /\ CanBegin(w)
    /\ \E rawScope \in U.listScopes, pkg \in U.pkgs, token \in U.readTokens :
          LET res == PackageListResponse(bucket, rawScope, pkg)
          IN  req' = [req EXCEPT ![w] =
                        [Idle EXCEPT !.kind = "list", !.pc = "done", !.scope = rawScope,
                                     !.token = token,
                                     !.pkg = pkg, !.status = res.status,
                                     !.error = IF res.status = 404 THEN "not_found" ELSE "",
                                     !.out = res.out, !.pre = Some(bucket)]]
    /\ served' = served + 1
    /\ UNCHANGED <<bucket, permissions, tokenCache, orgCache, rate, now, ticks,
                   faults, norm, authz, limiter, parsed, expires, resolved, created>>

\* ----- GET /packages (PackageRegistryList.handle)

\* listAllPackages: the <<"@scope", package>> names of the keys stored.
listAllPackages(b) == {<<key[2], key[3]>> : key \in DOMAIN b}

\* One package of the registry listing: Nothing when it has no index, else its
\* name, index.versions[0]?.version and the number of versions.
RegistryEntry(b, name) ==
    LET index == getIndex(b, slice1(name[1]), name[2])
    IN  IF index = Nothing THEN Nothing
        ELSE Some([name         |-> name,
                   latest       |-> IF Len(index[1].versions) = 0 THEN Nothing
                                    ELSE Some(index[1].versions[1].version),
                   versionCount |-> Len(index[1].versions)])

RegistryListResponse(b) ==
    {RegistryEntry(b, name)[1] : name \in {n \in listAllPackages(b) : RegistryEntry(b, n) # Nothing}}

PackageRegistryList(w) ==
    /\ CanBegin(w)
    /\ req' = [req EXCEPT ![w] =
                 [Idle EXCEPT !.kind = "registry", !.pc = "done", !.status = 200,
                              !.out = Some(RegistryListResponse(bucket)),
                              !.pre = Some(bucket)]]
    /\ served' = served + 1
    /\ UNCHANGED <<bucket, permissions, tokenCache, orgCache, rate, now, ticks,
                   faults, norm, authz, limiter, parsed, expires, resolved, created>>

\* ----- GET /packages/:scope/:package/:version (PackageDownload.handle)

\* getPackage: the archive stored under the key, Nothing when there is none.
getPackage(b, scope, packageName, version) ==
    IF buildPackageKey(scope, packageName, version) \in DOMAIN b
    THEN Some(b[buildPackageKey(scope, packageName, version)]) ELSE Nothing

\* getMetadata: the metadata document of the version, Nothing when there is none.
getMetadata(b, scope, packageName, version) ==
    IF buildMetadataKey(scope, packageName, version) \in DOMAIN b
    THEN Some(b[buildMetadataKey(scope, packageName, version)]) ELSE Nothing

\* What a download request may carry besides its path: an If-None-Match header
\* ("match" when it equals the object's ETag) and a Range header ("bytes" when
\* it has the form bytes=<start>-<end>).
Conditions == {"none", "match", "other"}

Ranges == {"none", "bytes", "other"}

\* The response to a download: 404 without an archive, 304 on a matching ETag,
\* 206 with the requested part for a byte range, else 200 with the archive;
\* the integrity header is that of the metadata document when there is one.
PackageDownloadResponse(b, scope, packageName, version, ifNoneMatch, range) ==
    LET packageObject == getPackage(b, scope, packageName, version)
        metadata      == getMetadata(b, scope, packageName, version)
        integrity     == IF metadata = Nothing THEN Nothing ELSE Some(metadata[1].integrity)
    IN  IF packageObject = Nothing
        THEN [status |-> 404, error |-> "not_found", out |-> Nothing]
        ELSE IF ifNoneMatch = "match"
        THEN [status |-> 304, error |-> "", out |-> Nothing]
        ELSE [status |-> IF range = "bytes" THEN 206 ELSE 200,
              error  |-> "",
              out    |-> Some([body |-> packageObject[1], integrity |-> integrity])]

\* A download that asks for a credential.
PackageDownloadAuthenticated(w, U) ==
    /\ CanBegin(w)
    /\ \E scope \in U.scopes, pkg \in U.pkgs, version \in U.versions,
          token \in U.readTokens, ifNoneMatch \in Conditions, range \in Ranges :
          LET res == PackageDownloadResponse(bucket, scope, pkg, version, ifNoneMatch, range)
              r   == [Idle EXCEPT !.kind = "download", !.pc = "done", !.scope = scope,
                                  !.pkg = pkg, !.version = version, !.token = token,
                                  !.pre = Some(bucket)]
          IN  req' = [req EXCEPT ![w] =
                        IF GitHubUserOf(token) = Nothing
                        THEN Respond(r, 401, "unauthorized")
                        ELSE [r EXCEPT !.status = res.status, !.error = res.error,
                                       !.out = res.out]]
    /\ served' = served + 1
    /\ UNCHANGED <<bucket, permissions, tokenCache, orgCache, rate, now, ticks,
                   faults, norm, authz, limiter, parsed, expires, resolved, created>>

PackageDownload(w, U) ==
    /\ CanBegin(w)
    /\ \E scope \in U.scopes, pkg \in U.pkgs, version \in U.versions,
          token \in U.readTokens, ifNoneMatch \in Conditions, range \in Ranges :
          LET res == PackageDownloadResponse(bucket, scope, pkg, version, ifNoneMatch, range)
          IN  req' = [req EXCEPT ![w] =
                        [Idle EXCEPT !.kind = "download", !.pc = "done", !.scope = scope,
                                     !.pkg = pkg, !.version = version, !.token = token,
                                     !.status = res.status, !.error = res.error,
                                     !.out = res.out, !.pre = Some(bucket)]]
    /\ served' = served + 1
    /\ UNCHANGED <<bucket, permissions, tokenCache, orgCache, rate, now, ticks,
                   faults, norm, authz, limiter, parsed, expires, resolved, created>>

\* ----- GET /packages/:scope/:package/:version/metadata (PackageMetadataEndpoint.handle)

PackageMetadataResponse(b, scope, packageName, version) ==
    LET metadata == getMetadata(b, scope, packageName, version)
    IN  IF metadata = Nothing
        THEN [status |-> 404, error |-> "not_found", out |-> Nothing]
        ELSE [status |-> 200, error |-> "", out |-> metadata]

PackageMetadataEndpoint(w, U) ==
    /\ CanBegin(w)
    /\ \E scope \in U.scopes, pkg \in U.pkgs, version \in U.versions, token \in U.readTokens :
          LET res == PackageMetadataResponse(bucket, scope, pkg, version)
          IN  req' = [req EXCEPT ![w] =
                        [Idle EXCEPT !.kind = "metadata", !.pc = "done", !.scope = scope,
                                     !.pkg = pkg, !.version = version, !.token = token,
                                     !.status = res.status, !.error = res.error,
                                     !.out = res.out, !.pre = Some(bucket)]]
    /\ served' = served + 1
    /\ UNCHANGED <<bucket, permissions, tokenCache, orgCache, rate, now, ticks,
                   faults, norm, authz, limiter, parsed, expires, resolved, created>>

\* The ids of the GitHub users.
UserIds == {GitHubUserOf(token)[1].id : token \in {t \in Tokens : GitHubUserOf(t) # Nothing}}

\* ----- DELETE /permissions/:user/:permission (PermissionRevoke.handle)
\* ----- GET /permissions/:user (PermissionList.handle)

\* parseInt(s, 10): the value of the digits s starts with, after an optional
\* sign; Nothing (NaN) when there are none.
parseInt(s) ==
    LET negative == startsWith(s, "-")
        digits   == IF negative \/ startsWith(s, "+") THEN slice1(s) ELSE s
        n        == DigitPrefixLen(digits)
    IN  IF n = 0 THEN Nothing
        ELSE Some(IF negative THEN 0 - DecimalValue(SubSeq(digits, 1, n))
                  ELSE DecimalValue(SubSeq(digits, 1, n)))

\* isNaN(userId) || userId <= 0
BadUserId(userIdStr) == parseInt(userIdStr) = Nothing \/ parseInt(userIdStr)[1] <= 0

\* A revoke with Step 2, the requester's admin check, left out.
PermissionRevokeUnchecked(w, U) ==
    /\ CanBegin(w)
    /\ \E token \in U.tokens, userIdStr \in U.users, permission \in U.permissions :
          LET r == [Idle EXCEPT !.kind = "revoke", !.token = token, !.target = userIdStr,
                                !.permission = permission]
              v == validateGitHubToken(token)
          IN  IF token = "" \/ v.user = Nothing
              THEN /\ req' = [req EXCEPT ![w] = Respond(r, 401, "unauthorized")]
                   /\ UNCHANGED <<permissions, tokenCache>>
              ELSE /\ tokenCache' = v.cache
                   /\ IF BadUserId(userIdStr)
                      THEN /\ req' = [req EXCEPT ![w] =
                                        Respond([r EXCEPT !.user = v.user], 400, "bad_request")]
                           /\ UNCHANGED permissions
                      ELSE /\ permissions' = revokePermission(parseInt(userIdStr)[1], permission)
                           /\ req' = [req EXCEPT ![w] =
                                        Respond([r EXCEPT !.user = v.user], 200, "")]
    /\ served' = served + 1
    /\ UNCHANGED <<bucket, orgCache, rate, now, ticks, faults, norm, authz, limiter, parsed, resolved,
                   created>>
    /\ expires' = Stamped(expires, "token", tokenCache, tokenCache', TOKEN_CACHE_TTL, now)

\* The revoke request: a credential (401), an administrator (403), a positive
\* user id (400), then revokePermission and 200.
PermissionRevoke(w, U) ==
    /\ CanBegin(w)
    /\ \E token \in U.tokens, userIdStr \in U.users, permission \in U.permissions :
          LET r == [Idle EXCEPT !.kind = "revoke", !.token = token, !.target = userIdStr,
                                !.permission = permission]
              v == validateGitHubToken(token)
          IN  IF token = "" \/ v.user = Nothing
              THEN /\ req' = [req EXCEPT ![w] = Respond(r, 401, "unauthorized")]
                   /\ UNCHANGED <<permissions, tokenCache>>
              ELSE /\ tokenCache' = v.cache
                   /\ IF ~isAdmin(v.user[1].id)
                      THEN /\ req' = [req EXCEPT ![w] =
                                        Respond([r EXCEPT !.user = v.user], 403, "forbidden")]
                           /\ UNCHANGED permissions
                      ELSE IF BadUserId(userIdStr)
                      THEN /\ req' = [req EXCEPT ![w] =
                                        Respond([r EXCEPT !.user = v.user], 400, "bad_request")]
                           /\ UNCHANGED permissions
                      ELSE /\ permissions' = revokePermission(parseInt(userIdStr)[1], permission)
                           /\ req' = [req EXCEPT ![w] =
                                        Respond([r EXCEPT !.user = v.user], 200, "")]
    /\ served' = served + 1
    /\ UNCHANGED <<bucket, orgCache, rate, now, ticks, faults, norm, authz, limiter, parsed, resolved,
                   created>>
    /\ expires' = Stamped(expires, "token", tokenCache, tokenCache', TOKEN_CACHE_TTL, now)

\* The list request: a credential (401), an administrator (403), a positive
\* user id (400), then the user's capabilities with 200.
PermissionList(w, U) ==
    /\ CanBegin(w)
    /\ \E token \in U.tokens, userIdStr \in U.users :
          LET r == [Idle EXCEPT !.kind = "permissions", !.token = token, !.target = userIdStr]
              v == validateGitHubToken(token)
          IN  IF token = "" \/ v.user = Nothing
              THEN /\ req' = [req EXCEPT ![w] = Respond(r, 401, "unauthorized")]
                   /\ UNCHANGED tokenCache
              ELSE /\ tokenCache' = v.cache
                   /\ req' = [req EXCEPT ![w] =
                        IF ~isAdmin(v.user[1].id)
                        THEN Respond([r EXCEPT !.user = v.user], 403, "forbidden")
                        ELSE IF BadUserId(userIdStr)
                        THEN Respond([r EXCEPT !.user = v.user], 400, "bad_request")
                        ELSE [Respond([r EXCEPT !.user = v.user], 200, "") EXCEPT
                                !.out = Some(getUserPermissions(parseInt(userIdStr)[1]))]]
    /\ served' = served + 1
    /\ UNCHANGED <<bucket, permissions, orgCache, rate, now, ticks, faults, norm, authz,
                   limiter, parsed, resolved, created>>
    /\ expires' = Stamped(expires, "token", tokenCache, tokenCache', TOKEN_CACHE_TTL, now)

\* grantPermission, called for any user and capability.
GrantPermission(U) ==
    /\ served < MaxRequests
    /\ \E userId \in UserIds, permission \in U.permissions :
          permissions' = grantPermission(userId, permission)
    /\ served' = served + 1
    /\ UNCHANGED <<bucket, tokenCache, orgCache, rate, now, ticks, faults, req, norm,
                   authz, limiter, parsed, expires, resolved, created>>

\* revokePermission, called for any user and capability.
RevokePermission(U) ==
    /\ served < MaxRequests
    /\ \E userId \in UserIds, permission \in U.permissions :
          permissions' = revokePermission(userId, permission)
    /\ served' = served + 1
    /\ UNCHANGED <<bucket, tokenCache, orgCache, rate, now, ticks, faults, req, norm,
                   authz, limiter, parsed, expires, resolved, created>>

\* ----- grantPermission and revokePermission, a step for each call they await

\* A revoke of the capability of the user is under way.
Revoking(userId, permission) ==
    \E v \in Workers : /\ req[v].kind = "revoke" /\ req[v].pc = "write"
                       /\ req[v].userId = userId /\ req[v].permission = permission

\* grantPermission up to the answer of getUserPermissions; a capability the
\* list holds is not granted again.
GrantGet(w, U) ==
    /\ CanBegin(w)
    /\ \E userId \in UserIds, permission \in U.permissions :
          LET r == [Idle EXCEPT !.kind = "grant", !.userId = userId,
                                !.permission = permission,
                                !.held = Some(getUserPermissions(userId))]
          IN  req' = [req EXCEPT ![w] =
                        IF hasPermission(userId, permission)
                        THEN [r EXCEPT !.pc = "done",
                                       !.undone = Revoking(userId, permission)]
                        ELSE [r EXCEPT !.pc = "put"]]
    /\ served' = served + 1
    /\ UNCHANGED <<bucket, permissions, tokenCache, orgCache, rate, now, ticks, faults,
                   norm, authz, limiter, parsed, expires, resolved, created>>

\* grantPermission writing the capability into the list as it is at the
\* write, not as it was read.
GrantPutMerging(w) ==
    /\ At_(w, "grant", "put")
    /\ permissions' = grantPermission(req[w].userId, req[w].permission)
    /\ req' = [req EXCEPT ![w].pc = "done",
                          ![w].undone = Revoking(req[w].userId, req[w].permission)]
    /\ UNCHANGED <<bucket, tokenCache, orgCache, rate, now, ticks, served, faults,
                   norm, authz, limiter, parsed, expires, resolved, created>>

\* grantPermission from the answer on: the list it read, with the capability
\* pushed, is put.
GrantPut(w) ==
    /\ At_(w, "grant", "put")
    /\ permissions' = Put(permissions, req[w].userId,
                          Append(req[w].held[1], req[w].permission))
    /\ req' = [req EXCEPT ![w].pc = "done",
                          ![w].undone = Revoking(req[w].userId, req[w].permission)]
    /\ UNCHANGED <<bucket, tokenCache, orgCache, rate, now, ticks, served, faults,
                   norm, authz, limiter, parsed, expires, resolved, created>>

\* revokePermission up to the answer of getUserPermissions. History: the
\* grants of this capability to this user that have completed are marked.
RevokeGet(w, U) ==
    /\ CanBegin(w)
    /\ \E userId \in UserIds, permission \in U.permissions :
          req' = [v \in Workers |->
                    IF v = w
                    THEN [Idle EXCEPT !.kind = "revoke", !.pc = "write", !.userId = userId,
                                      !.permission = permission,
                                      !.held = Some(getUserPermissions(userId))]
                    ELSE IF /\ req[v].kind = "grant" /\ req[v].pc = "done"
                            /\ req[v].userId = userId /\ req[v].permission = permission
                         THEN [req[v] EXCEPT !.undone = TRUE]
                         ELSE req[v]]
    /\ served' = served + 1
    /\ UNCHANGED <<bucket, permissions, tokenCache, orgCache, rate, now, ticks, faults,
                   norm, authz, limiter, parsed, expires, resolved, created>>

\* revokePermission from the answer on: the list it read, filtered, is put, or
\* the key is deleted when nothing is left of it.
RevokeWrite(w) ==
    /\ At_(w, "revoke", "write")
    /\ LET filteredPermissions ==
               SelectSeq(req[w].held[1], LAMBDA p : p # req[w].permission)
       IN  permissions' = IF Len(filteredPermissions) = 0
                          THEN Delete(permissions, req[w].userId)
                          ELSE Put(permissions, req[w].userId, filteredPermissions)
    /\ req' = [req EXCEPT ![w].pc = "done"]
    /\ UNCHANGED <<bucket, tokenCache, orgCache, rate, now, ticks, served, faults,
                   norm, authz, limiter, parsed, expires, resolved, created>>

\* The steps of the grants and revokes the workers of W make.
Grants(W, U) ==
    \E w \in W : GrantGet(w, U) \/ GrantPut(w) \/ RevokeGet(w, U) \/ RevokeWrite(w)

\* ----- validateGitHubToken, the resolver of an authenticated identity

\* tryValidateAsUserToken: the identity of a GitHub user.
UserIdentity(user) ==
    [type |-> "user", scope |-> toLowerCase(user.login), userId |-> Some(user.id)]

\* tryValidateAsInstallationToken: the identity of an installation owned by owner.
InstallationIdentity(owner) ==
    [type |-> "installation", scope |-> toLowerCase(owner), userId |-> Nothing]

\* What GET /user may answer: a status that is not ok, or the user.
UserAnswers ==
    {[status |-> 401], [status |-> 403], [status |-> 500],
     [status |-> 200, user |-> [login |-> <<"A">>, id |-> 1]]}

\* What GET /installation/repositories may answer: a status that is not ok,
\* or the owners of the repositories, in the order of the answer.
InstallationAnswers ==
    {[status |-> 401], [status |-> 403], [status |-> 500],
     [status |-> 200, owners |-> <<>>],
     [status |-> 200, owners |-> <<<<"O">>>>],
     [status |-> 200, owners |-> <<<<"O">>, <<"b">>>>]}

\* tryValidateAsUserToken: Nothing for 401, 403 and for the error thrown on
\* any other status that is not ok.
tryValidateAsUserToken(answer) ==
    IF answer.status # 200 THEN Nothing ELSE Some(UserIdentity(answer.user))

\* tryValidateAsInstallationToken: Nothing also when no repository is
\* accessible; the owner is the first one of the answer.
tryValidateAsInstallationToken(answer) ==
    IF answer.status # 200 THEN Nothing
    ELSE IF Len(answer.owners) = 0 THEN Nothing
    ELSE Some(InstallationIdentity(answer.owners[1]))

\* A resolution that fails stored as an entry of the cache.
validateGitHubIdentityCachingFailure(token, userAnswer, installationAnswer) ==
    LET userIdentity         == tryValidateAsUserToken(userAnswer)
        installationIdentity == tryValidateAsInstallationToken(installationAnswer)
    IN  IF token \in DOMAIN tokenCache
        THEN [identity |-> Some(tokenCache[token]), cache |-> tokenCache, fetched |-> FALSE]
        ELSE IF userIdentity # Nothing
        THEN [identity |-> userIdentity, cache |-> Put(tokenCache, token, userIdentity[1]),
              fetched |-> TRUE]
        ELSE [identity |-> installationIdentity,
              cache    |-> Put(tokenCache, token,
                               IF installationIdentity = Nothing
                               THEN [type |-> "none", scope |-> <<>>, userId |-> Nothing]
                               ELSE installationIdentity[1]),
              fetched  |-> TRUE]

\* The provider asked also when the identity is cached, the answer written
\* over the entry.
validateGitHubIdentityRefreshing(token, userAnswer, installationAnswer) ==
    LET userIdentity         == tryValidateAsUserToken(userAnswer)
        installationIdentity == tryValidateAsInstallationToken(installationAnswer)
    IN  IF userIdentity # Nothing
        THEN [identity |-> userIdentity, cache |-> Put(tokenCache, token, userIdentity[1]),
              fetched |-> TRUE]
        ELSE IF installationIdentity # Nothing
        THEN [identity |-> installationIdentity,
              cache    |-> Put(tokenCache, token, installationIdentity[1]),
              fetched  |-> TRUE]
        ELSE [identity |-> Nothing, cache |-> tokenCache, fetched |-> TRUE]

\* validateGitHubToken after a cache miss: the user identity, else the
\* installation identity, each cached; else null. [identity, cache, fetched]
fetchIdentity(token, userAnswer, installationAnswer) ==
    LET userIdentity         == tryValidateAsUserToken(userAnswer)
        installationIdentity == tryValidateAsInstallationToken(installationAnswer)
    IN  IF userIdentity # Nothing
        THEN [identity |-> userIdentity, cache |-> Put(tokenCache, token, userIdentity[1]),
              fetched |-> TRUE]
        ELSE IF installationIdentity # Nothing
        THEN [identity |-> installationIdentity,
              cache    |-> Put(tokenCache, token, installationIdentity[1]),
              fetched  |-> TRUE]
        ELSE [identity |-> Nothing, cache |-> tokenCache, fetched |-> TRUE]

\* validateGitHubToken returning an AuthenticatedIdentity: the cached identity
\* (the JSON text of an identity parses back to it), else what the provider
\* answers. fetched is whether the provider was asked.
\* [identity, cache, fetched]
validateGitHubIdentity(token, userAnswer, installationAnswer) ==
    IF token \in DOMAIN tokenCache
    THEN [identity |-> Some(tokenCache[token]), cache |-> tokenCache, fetched |-> FALSE]
    ELSE fetchIdentity(token, userAnswer, installationAnswer)

\* One call of the resolver.
ValidateGitHubToken(tokens) ==
    /\ \E token \in tokens, userAnswer \in UserAnswers,
          installationAnswer \in InstallationAnswers :
          LET res == validateGitHubIdentity(token, userAnswer, installationAnswer)
          IN  /\ resolved' = [op |-> "validateGitHubToken", token |-> token,
                              userAnswer |-> userAnswer,
                              installationAnswer |-> installationAnswer,
                              identity |-> res.identity, fetched |-> res.fetched]
              /\ tokenCache' = res.cache
    /\ expires' = Stamped(expires, "token", tokenCache, tokenCache', TOKEN_CACHE_TTL, now)
    /\ UNCHANGED <<bucket, permissions, orgCache, rate, now, ticks, served, faults, req,
                   norm, authz, limiter, parsed, created>>

\* ----- checkPermissions (endpoint-permissions.ts) and validateOrgMembership

\* What GET /orgs/:org/memberships/:username may answer: 404, 403, another
\* failure, or a membership <<role, state>>.
Answers == {"404", "403", "500", "admin-active", "admin-pending", "member-active"}

\* The membership state ignored: an administrator whose membership is pending
\* taken for one.
validateOrgMembershipAnyState(token, username, orgName, answer) ==
    LET cacheKey == <<token, username, orgName>>
        admin    == answer \in {"admin-active", "admin-pending"}
    IN  IF cacheKey \in DOMAIN orgCache
        THEN [isAdmin |-> orgCache[cacheKey] = "admin", error |-> "", cache |-> orgCache]
        ELSE CASE answer = "404" ->
                    [isAdmin |-> FALSE, error |-> "",
                     cache |-> Put(orgCache, cacheKey, "not_member")]
               [] answer = "403" ->
                    [isAdmin |-> FALSE, error |-> "insufficient_permissions", cache |-> orgCache]
               [] answer = "500" ->
                    [isAdmin |-> FALSE, error |-> "github_api_error", cache |-> orgCache]
               [] OTHER ->
                    [isAdmin |-> admin, error |-> "",
                     cache |-> Put(orgCache, cacheKey, IF admin THEN "admin" ELSE "member")]

\* validateOrgMembership after a cache miss: the provider's answer, cached
\* unless it is a failure. [isAdmin, error, cache]
fetchOrgMembership(cacheKey, answer) ==
    CASE answer = "404" ->
            [isAdmin |-> FALSE, error |-> "", cache |-> Put(orgCache, cacheKey, "not_member")]
      [] answer = "403" ->
            [isAdmin |-> FALSE, error |-> "insufficient_permissions", cache |-> orgCache]
      [] answer = "500" ->
            [isAdmin |-> FALSE, error |-> "github_api_error", cache |-> orgCache]
      [] OTHER ->
            [isAdmin |-> answer = "admin-active", error |-> "",
             cache |-> Put(orgCache, cacheKey,
                           IF answer = "admin-active" THEN "admin" ELSE "member")]

\* validateOrgMembership: the cached role, else the provider's answer, cached
\* unless it is a failure. [isAdmin, error, cache]
validateOrgMembership(token, username, orgName, answer) ==
    LET cacheKey == <<token, username, orgName>>
    IN  IF cacheKey \in DOMAIN orgCache
        THEN [isAdmin |-> orgCache[cacheKey] = "admin", error |-> "", cache |-> orgCache]
        ELSE fetchOrgMembership(cacheKey, answer)

Denied(error) == Some([status |-> 403, error |-> error])

\* Every identity taken for a user token.
IsUserTokenAlways(identity) == TRUE

\* identity.type === 'user', the test that guards the membership lookup.
IsUserToken(identity) == identity.type = "user"

\* checkPermissions: the response (Nothing when access is allowed), the
\* membership cache afterwards, and whether the provider's membership answer
\* was asked for. [response, cache, lookup]
checkPermissions(identity, scope, token, answer) ==
    LET normalizedScope == normalizeScope(scope)
        allow == [response |-> Nothing, cache |-> orgCache, lookup |-> FALSE]
        org   == validateOrgMembership(token, identity.scope, normalizedScope, answer)
    IN  IF identity.type = "user" /\ identity.userId # Nothing /\ isAdmin(identity.userId[1])
        THEN allow
        ELSE IF identity.scope = normalizedScope
        THEN allow
        ELSE IF IsUserToken(identity)
        THEN [response |-> IF org.error = "insufficient_permissions"
                           THEN Denied("insufficient_permissions")
                           ELSE IF ~org.isAdmin THEN Denied("forbidden")
                           ELSE Nothing,
              cache    |-> org.cache,
              lookup   |-> TRUE]
        ELSE IF identity.type = "installation"
        THEN [allow EXCEPT !.response = Denied("installation_scope_mismatch")]
        ELSE [allow EXCEPT !.response = Denied("forbidden")]

\* The callers of the authorizer: a token and the identity it resolves to.
Callers ==
    {[token |-> "tok-a",    identity |-> UserIdentity(GitHubUserOf("tok-a")[1])],
     [token |-> "tok-root", identity |-> UserIdentity(GitHubUserOf("tok-root")[1])],
     [token |-> "ghs-a",    identity |-> InstallationIdentity(<<"a">>)],
     [token |-> "ghs-o",    identity |-> InstallationIdentity(<<"O">>)]}

TargetScopes == {<<"a">>, <<"@", "A">>, <<"O">>}

\* One call of the authorizer, by one of the callers for one of the scopes,
\* the provider answering one of the answers if asked.
CheckPermissionsOf(callers, scopes, answers) ==
    /\ \E caller \in callers, scope \in scopes, answer \in answers :
          LET res == checkPermissions(caller.identity, scope, caller.token, answer)
          IN  /\ authz' = [op |-> "checkPermissions", identity |-> caller.identity,
                           token |-> caller.token, scope |-> scope, answer |-> answer,
                           response |-> res.response, lookup |-> res.lookup]
              /\ orgCache' = res.cache
    /\ UNCHANGED <<bucket, permissions, tokenCache, rate, now, ticks, served, faults,
                   req, norm, limiter, parsed, resolved, created>>
    /\ expires' = Stamped(expires, "org", orgCache, orgCache', ORG_MEMBERSHIP_CACHE_TTL, now)

CheckPermissions == CheckPermissionsOf(Callers, TargetScopes, Answers)

\* The permission stores the authorizer is called with: any of the users an
\* administrator.
PermissionStores == {[userId \in admins |-> <<"admin">>] : admins \in SUBSET UserIds}

\* ----- the two cached lookups, a step for each call they await

\* The expiration of an entry written to a namespace at time t.
WithExpiration(exp, namespace, key, ttl, t) ==
    [k \in DOMAIN exp \cup {<<namespace, key>>} |->
        IF k = <<namespace, key>> THEN t + ttl * 1000 ELSE exp[k]]

\* The key of the membership entry a lookup is about.
MembershipKey(r) == <<r.token, toLowerCase(r.user[1].login), r.scope>>

\* The cache not consulted: every lookup goes on to the provider.
MembershipGetUncached(w, U) ==
    /\ CanBegin(w)
    /\ \E token \in U.tokens, scope \in U.scopes :
          req' = [req EXCEPT ![w] =
                    [Idle EXCEPT !.kind = "membership", !.token = token, !.scope = scope,
                                 !.user = GitHubUserOf(token), !.pc = "fetch"]]
    /\ served' = served + 1
    /\ UNCHANGED <<bucket, permissions, tokenCache, orgCache, rate, now, ticks, faults,
                   norm, authz, limiter, parsed, expires, resolved, created>>

\* validateOrgMembership up to the answer of ORG_MEMBERSHIP_CACHE.get: the
\* cached decision, or on to the provider.
MembershipGet(w, U) ==
    /\ CanBegin(w)
    /\ \E token \in U.tokens, scope \in U.scopes :
          LET r == [Idle EXCEPT !.kind = "membership", !.token = token, !.scope = scope,
                                !.user = GitHubUserOf(token)]
          IN  req' = [req EXCEPT ![w] =
                        IF MembershipKey(r) \in DOMAIN orgCache
                        THEN [Respond(r, 0, "") EXCEPT
                                 !.hit = TRUE,
                                 !.out = Some(orgCache[MembershipKey(r)] = "admin")]
                        ELSE [r EXCEPT !.pc = "fetch"]]
    /\ served' = served + 1
    /\ UNCHANGED <<bucket, permissions, tokenCache, orgCache, rate, now, ticks, faults,
                   norm, authz, limiter, parsed, expires, resolved, created>>

\* validateOrgMembership from the provider's answer on: the answer is
\* written to the cache unless it is a failure.
MembershipFetch(w) ==
    /\ At_(w, "membership", "fetch")
    /\ \E answer \in Answers :
          LET r   == req[w]
              res == fetchOrgMembership(MembershipKey(r), answer)
          IN  /\ req' = [req EXCEPT ![w] =
                           [Respond(r, 0, res.error) EXCEPT !.out = Some(res.isAdmin)]]
              /\ orgCache' = res.cache
              /\ expires' = IF answer \in {"403", "500"} THEN expires
                            ELSE WithExpiration(expires, "org", MembershipKey(r),
                                                ORG_MEMBERSHIP_CACHE_TTL, now)
    /\ UNCHANGED <<bucket, permissions, tokenCache, rate, now, ticks, served, faults,
                   norm, authz, limiter, parsed, resolved, created>>

\* validateGitHubToken up to the answer of TOKEN_CACHE.get.
IdentityGet(w, U) ==
    /\ CanBegin(w)
    /\ \E token \in U.tokens :
          LET r == [Idle EXCEPT !.kind = "identity", !.token = token]
          IN  req' = [req EXCEPT ![w] =
                        IF token \in DOMAIN tokenCache
                        THEN [Respond(r, 0, "") EXCEPT !.hit = TRUE,
                                                       !.out = Some(Some(tokenCache[token]))]
                        ELSE [r EXCEPT !.pc = "fetch"]]
    /\ served' = served + 1
    /\ UNCHANGED <<bucket, permissions, tokenCache, orgCache, rate, now, ticks, faults,
                   norm, authz, limiter, parsed, expires, resolved, created>>

\* validateGitHubToken from the provider's answers on.
IdentityFetch(w) ==
    /\ At_(w, "identity", "fetch")
    /\ \E userAnswer \in UserAnswers, installationAnswer \in InstallationAnswers :
          LET r   == req[w]
              res == fetchIdentity(r.token, userAnswer, installationAnswer)
          IN  /\ req' = [req EXCEPT ![w] = [Respond(r, 0, "") EXCEPT !.out = Some(res.identity)]]
              /\ tokenCache' = res.cache
              /\ expires' = IF res.identity = Nothing THEN expires
                            ELSE WithExpiration(expires, "token", r.token, TOKEN_CACHE_TTL, now)
    /\ UNCHANGED <<bucket, permissions, orgCache, rate, now, ticks, served, faults,
                   norm, authz, limiter, parsed, resolved, created>>

\* Lookups of one credential about one organization.
LookupInputs == [tokens |-> {"tok-a"}, scopes |-> {<<"o">>}]

Lookups(W, U) ==
    \E w \in W :
        \/ MembershipGet(w, U)
        \/ MembershipFetch(w)
        \/ IdentityGet(w, U)
        \/ IdentityFetch(w)

\* ----- normalizeScope, applied to a scope and to a respelling of it

ScopeChars == {"@", "a", "A", "b"}

ScopeStrings == UNION {[1..n -> ScopeChars] : n \in 0..MaxLen}

\* s and t are the same string up to the case of their letters.
SameUpToCase(s, t) ==
    /\ Len(s) = Len(t)
    /\ \A i \in 1..Len(s) :
          \/ s[i] = t[i]
          \/ \E j \in 1..Len(Lowers) : {s[i], t[i]} = {Lowers[j], Uppers[j]}

Normalize ==
    /\ norm.op = "input"
    /\ norm' = [op    |-> "normalizeScope",
                in    |-> norm.in,
                other |-> norm.other,
                out   |-> normalizeScope(norm.in),
                outOther |-> normalizeScope(norm.other),
                again |-> normalizeScope(normalizeScope(norm.in))]
    /\ UNCHANGED <<bucket, permissions, tokenCache, orgCache, rate, now, ticks, served,
                   faults, req, authz, limiter, parsed, expires, resolved, created>>

\* ----- the RateLimiter object called directly, and the clock

\* History of the calls: the time the first increment() of the current
\* series was made (a series ends WINDOW_MS later, or at reset()), the number of
\* increment() calls in it, and whether a checkLimit() in it was refused.
NoSeries == [op |-> "none", at |-> 0, result |-> Nothing,
             start |-> Nothing, calls |-> 0, denied |-> FALSE]

SeriesLive(t) == limiter.start # Nothing /\ t < limiter.start[1] + WINDOW_MS

RLCheckLimit(ip) ==
    /\ LET res == checkLimit(rate[ip], now)
       IN  limiter' = [limiter EXCEPT !.op = "checkLimit", !.at = now,
                                      !.result = Some(res),
                                      !.denied = @ \/ (SeriesLive(now) /\ ~res.allowed)]
    /\ UNCHANGED <<bucket, permissions, tokenCache, orgCache, rate, now, ticks, served,
                   faults, req, norm, authz, parsed, expires, resolved, created>>

RLIncrement(ip) ==
    /\ limiter.calls < MaxCalls
    /\ rate' = [rate EXCEPT ![ip] = increment(@, now)]
    /\ limiter' = IF SeriesLive(now)
                  THEN [limiter EXCEPT !.op = "increment", !.at = now, !.result = Nothing,
                                       !.calls = @ + 1]
                  ELSE [NoSeries EXCEPT !.op = "increment", !.at = now,
                                        !.start = Some(now), !.calls = 1]
    /\ UNCHANGED <<bucket, permissions, tokenCache, orgCache, now, ticks, served,
                   faults, req, norm, authz, parsed, expires, resolved, created>>

RLReset(ip) ==
    /\ rate' = [rate EXCEPT ![ip] = reset(@)]
    /\ limiter' = [NoSeries EXCEPT !.op = "reset", !.at = now]
    /\ UNCHANGED <<bucket, permissions, tokenCache, orgCache, now, ticks, served,
                   faults, req, norm, authz, parsed, expires, resolved, created>>

RLGetStatus(ip) ==
    /\ limiter' = [limiter EXCEPT !.op = "getStatus", !.at = now,
                                  !.result = getStatus(rate[ip], now)]
    /\ UNCHANGED <<bucket, permissions, tokenCache, orgCache, rate, now, ticks, served,
                   faults, req, norm, authz, parsed, expires, resolved, created>>

\* The runtime calls alarm() once the time set for it has come.
RLAlarm(ip) ==
    /\ rate[ip].alarm # Nothing
    /\ now >= rate[ip].alarm[1]
    /\ rate' = [rate EXCEPT ![ip] = alarm(@, now)]
    /\ limiter' = [limiter EXCEPT !.op = "alarm", !.at = now, !.result = Nothing]
    /\ UNCHANGED <<bucket, permissions, tokenCache, orgCache, now, ticks, served,
                   faults, req, norm, authz, parsed, expires, resolved, created>>

\* ----- increment() called concurrently on the objects of several client keys

\* The client keys: idFromName(ip) names one object for each.
Keys == {"ip1", "ip2"}

\* History of the calls of each key's object: the increment() calls issued
\* on its stub, those not yet delivered to it, what each call that is
\* running read from the storage, and whether a call was issued while
\* another was under way.
NoCalls ==
    [op |-> "calls",
     issued  |-> [ip \in Keys |-> 0],
     pending |-> [ip \in Keys |-> 0],
     running |-> [ip \in Keys |-> <<>>],
     overlap |-> [ip \in Keys |-> FALSE]]

\* incrementUploadCount: increment() is called on the stub of the key.
IssueIncrement(ip) ==
    /\ limiter.issued[ip] < MaxRequests
    /\ limiter' = [limiter EXCEPT
                      !.issued[ip] = @ + 1,
                      !.pending[ip] = @ + 1,
                      !.overlap[ip] = @ \/ limiter.pending[ip] > 0
                                        \/ Len(limiter.running[ip]) > 0]
    /\ UNCHANGED <<bucket, permissions, tokenCache, orgCache, rate, now, ticks, served,
                   faults, req, norm, authz, parsed, expires, resolved, created>>

\* A call delivered while another call of the object awaits its storage.
IncrementGetUngated(ip) ==
    /\ limiter.pending[ip] > 0
    /\ limiter' = [limiter EXCEPT !.pending[ip] = @ - 1,
                                  !.running[ip] = Append(@, rate[ip].data)]
    /\ UNCHANGED <<bucket, permissions, tokenCache, orgCache, rate, now, ticks, served,
                   faults, req, norm, authz, parsed, expires, resolved, created>>

\* increment() up to the answer of storage.get. The object takes a call
\* only when none of its calls awaits the storage: the calls a method awaits
\* are storage calls only, during which the runtime delivers no other call
\* to the object.
IncrementGet(ip) ==
    /\ limiter.pending[ip] > 0
    /\ Len(limiter.running[ip]) = 0
    /\ limiter' = [limiter EXCEPT !.pending[ip] = @ - 1,
                                  !.running[ip] = Append(@, rate[ip].data)]
    /\ UNCHANGED <<bucket, permissions, tokenCache, orgCache, rate, now, ticks, served,
                   faults, req, norm, authz, parsed, expires, resolved, created>>

\* increment() from the answer of storage.get on: the put of the count it
\* read raised by one, or of a new window.
IncrementPut(ip) ==
    /\ Len(limiter.running[ip]) > 0
    /\ rate' = [rate EXCEPT ![ip] = increment([@ EXCEPT !.data = Head(limiter.running[ip])],
                                               now)]
    /\ limiter' = [limiter EXCEPT !.running[ip] = Tail(@)]
    /\ UNCHANGED <<bucket, permissions, tokenCache, orgCache, now, ticks, served,
                   faults, req, norm, authz, parsed, expires, resolved, created>>

\* Date.now() advances by one of the steps; the KV entries whose expiration
\* has come are gone.
TickOf(steps) ==
    /\ ticks < MaxTicks
    /\ \E step \in steps : now' = now + step
    /\ ticks' = ticks + 1
    /\ tokenCache' = Unexpired(expires, "token", tokenCache, now')
    /\ orgCache' = Unexpired(expires, "org", orgCache, now')
    /\ expires' = [k \in {e \in DOMAIN expires : expires[e] > now'} |-> expires[k]]
    /\ UNCHANGED <<bucket, permissions, rate, served, faults, req, norm, authz, limiter,
                   parsed, resolved, created>>

Tick == TickOf({ALARM_DELAY_MS, WINDOW_MS})

\* ------------------------------------------------------- the specifications


\* ------------------------------------------- the extraction, called directly

DependencyEntries ==
    {StringEntry(<<"1", ":", "p">>), StringEntry(<<"p">>),
     ObjectEntry(<<"p">>, <<"2">>), ObjectEntry(<<"p">>, <<>>), OtherEntry}

DependencyLists == UNION {[1..n -> DependencyEntries] : n \in 0..MaxDeps}

ManifestContents ==
    {Unparsable, NoDependencies} \cup {WithDependencies(deps) : deps \in DependencyLists}

SUB_QLL_INFO == <<"s", "/", "Q", "L", "L", ".", "I", "N", "F", "O">>

\* The archives handed to extractDependencies: one that unzipSync rejects,
\* ones without a manifest, ones with a manifest at the root or below it, and
\* ones with two manifests.
Archives ==
    {[unzips |-> FALSE, files |-> <<>>]}
    \cup {[unzips |-> TRUE, files |-> files] :
            files \in {<<>>, <<File(README, Unparsable)>>}
                      \cup {<<File(QLL_INFO, m)>> : m \in ManifestContents}
                      \cup {<<File(README, Unparsable), File(SUB_QLL_INFO, m)>> :
                              m \in ManifestContents}
                      \cup {<<File(SUB_QLL_INFO, m), File(QLL_INFO, NoDependencies)>> :
                              m \in ManifestContents}}

ExtractDependencies ==
    /\ parsed.op = "input"
    /\ parsed' = [op         |-> "extractDependencies",
                  packageData |-> parsed.packageData,
                  result     |-> extractDependencies(parsed.packageData)]
    /\ UNCHANGED <<bucket, permissions, tokenCache, orgCache, rate, now, ticks, served,
                   faults, req, norm, authz, limiter, expires, resolved, created>>

NoCall == [op |-> "none"]

\* The services as deployed: nothing stored, user 2 an administrator.
Services ==
    /\ bucket = <<>>
    /\ permissions = (2 :> <<"admin">>)
    /\ tokenCache = <<>>
    /\ orgCache = <<>>
    /\ rate = [ip \in Ips |-> [data |-> Nothing, alarm |-> Nothing]]
    /\ now = 0
    /\ ticks = 0
    /\ served = 0
    /\ faults = 0
    /\ req = [w \in Workers |-> Idle]

Init ==
    /\ Services
    /\ norm = NoCall
    /\ authz = NoCall
    /\ limiter = NoCall
    /\ parsed = NoCall
    /\ expires = <<>>
    /\ resolved = NoCall
    /\ created = <<>>

\* The requests of the sequential specification.
SeqInputs ==
    [ips        |-> {"ip1"},
     tokens     |-> Tokens,
     scopes     |-> {<<"a">>, <<"A">>, <<"@", "a">>},
     listScopes |-> {<<"a">>, <<"A">>, <<"@", "A">>},
     readTokens |-> {""},
     pkgs       |-> {<<"p">>},
     versions   |-> {V_1_0_2, V_1_0_1_b, V_bad},
     lengths    |-> {10240, MAX_FILE_SIZE + 1},
     bodies     |-> {"b1"}]

\* One step of a request handled by one of the workers W, on the inputs U.
Requests(W, U) ==
    \E w \in W :
        \/ BeginUpload(w, U)
        \/ UploadValidateToken(w)
        \/ UploadAuthorize(w)
        \/ UploadExists(w)
        \/ UploadRateCheck(w)
        \/ UploadStore(w, U)
        \/ UploadStoreMetadata(w)
        \/ UploadIndexGet(w)
        \/ UploadIndexPut(w)
        \/ UploadIncrement(w)
        \/ BeginDelete(w, U)
        \/ DeleteValidateToken(w)
        \/ DeleteAuthorize(w)
        \/ DeleteExists(w)
        \/ DeleteArchive(w)
        \/ DeleteMetadata(w)
        \/ DeleteIndexGet(w)
        \/ DeleteIndexWrite(w)
        \/ PackageList(w, U)
        \/ PackageRegistryList(w)

\* The steps of the uploads the workers of W handle.
Uploads(W, U) ==
    \E w \in W :
        \/ BeginUpload(w, U)
        \/ UploadValidateToken(w)
        \/ UploadAuthorize(w)
        \/ UploadExists(w)
        \/ UploadRateCheck(w)
        \/ UploadStore(w, U)
        \/ UploadStoreMetadata(w)
        \/ UploadIndexGet(w)
        \/ UploadIndexPut(w)
        \/ UploadIncrement(w)

\* Requests are handled one at a time.
Next == Requests({"w1"}, SeqInputs)

Spec == Init /\ [][Next]_vars

\* The authorizer alone, with any permission store.
InitAuth ==
    /\ bucket = <<>>
    /\ permissions \in PermissionStores
    /\ tokenCache = <<>>
    /\ orgCache = <<>>
    /\ rate = [ip \in Ips |-> [data |-> Nothing, alarm |-> Nothing]]
    /\ now = 0
    /\ ticks = 0
    /\ served = 0
    /\ faults = 0
    /\ req = [w \in Workers |-> Idle]
    /\ norm = NoCall
    /\ authz = NoCall
    /\ limiter = NoCall
    /\ parsed = NoCall
    /\ expires = <<>>
    /\ resolved = NoCall
    /\ created = <<>>

NextAuth == CheckPermissions

SpecAuth == InitAuth /\ [][NextAuth]_vars

\* The requests of the concurrent specification: one user, one version.
RaceInputs ==
    [ips        |-> {"ip1"},
     tokens     |-> {"tok-a"},
     scopes     |-> {<<"a">>},
     listScopes |-> {<<"a">>},
     readTokens |-> {""},
     pkgs       |-> {<<"p">>},
     versions   |-> {V_1_0_2},
     lengths    |-> {10240},
     bodies     |-> Bodies]

\* Two workers handle requests at once, their steps interleaved.
NextRace == Requests(Workers, RaceInputs)

SpecRace == Init /\ [][NextRace]_vars

\* A window of the client that admits one more upload, as nine uploads at
\* time 0 leave it.
NearlyExhausted ==
    [data  |-> Some([count |-> UPLOAD_LIMIT - 1, resetAt |-> WINDOW_MS]),
     alarm |-> Some(WINDOW_MS + ALARM_DELAY_MS)]

\* Nothing stored (what was uploaded has been deleted), user 2 an
\* administrator, the client's window absent or nearly exhausted.
InitGates ==
    /\ bucket = <<>>
    /\ permissions = (2 :> <<"admin">>)
    /\ tokenCache = <<>>
    /\ orgCache = <<>>
    /\ rate \in [Ips -> {[data |-> Nothing, alarm |-> Nothing], NearlyExhausted}]
    /\ now = 0
    /\ ticks = 0
    /\ served = 0
    /\ faults = 0
    /\ req = [w \in Workers |-> Idle]
    /\ norm = NoCall
    /\ authz = NoCall
    /\ limiter = NoCall
    /\ parsed = NoCall
    /\ expires = <<>>
    /\ resolved = NoCall
    /\ created = <<>>

\* Requests that fail one gate or several.
GateInputs ==
    [ips        |-> {"ip1", ""},
     tokens     |-> {"tok-a", "tok-bad", ""},
     scopes     |-> {<<"a">>, <<"A">>, <<"@", "a">>},
     listScopes |-> {<<"a">>},
     readTokens |-> {"", "tok-bad", "tok-a"},
     pkgs       |-> {<<"p">>},
     versions   |-> {V_1_0_2, V_bad},
     lengths    |-> {10240, MAX_FILE_SIZE + 1},
     bodies     |-> {"b1"}]

\* The download and the per-version metadata request.
Reads(W, U) ==
    \E w \in W :
        \/ PackageDownload(w, U)
        \/ PackageMetadataEndpoint(w, U)

NextGates == Requests({"w1"}, GateInputs) \/ Reads({"w1"}, GateInputs)

SpecGates == InitGates /\ [][NextGates]_vars

\* The permission requests: every token, user parameters that are and are
\* not positive integers, two capabilities.
PermInputs ==
    [tokens      |-> Tokens,
     users       |-> {<<"1">>, <<"2">>, <<"0">>, <<"x">>, <<"-", "1">>, <<"2", "x">>},
     permissions |-> {"admin", "publish"}]

\* Any of the users an administrator at first.
InitPerm ==
    /\ bucket = <<>>
    /\ permissions \in PermissionStores
    /\ tokenCache = <<>>
    /\ orgCache = <<>>
    /\ rate = [ip \in Ips |-> [data |-> Nothing, alarm |-> Nothing]]
    /\ now = 0
    /\ ticks = 0
    /\ served = 0
    /\ faults = 0
    /\ req = [w \in Workers |-> Idle]
    /\ norm = NoCall
    /\ authz = NoCall
    /\ limiter = NoCall
    /\ parsed = NoCall
    /\ expires = <<>>
    /\ resolved = NoCall
    /\ created = <<>>

NextPerm ==
    \/ PermissionRevoke("w1", PermInputs)
    \/ PermissionList("w1", PermInputs)
    \/ GrantPermission(PermInputs)

SpecPerm == InitPerm /\ [][NextPerm]_vars

\* The authorizer called while capabilities are granted and revoked; the store
\* is empty at first.
UserCallers == {caller \in Callers : caller.identity.type = "user"}

NextAdmin ==
    \/ CheckPermissionsOf(UserCallers, {<<"a">>, <<"O">>}, {"404", "admin-active"})
    \/ GrantPermission(PermInputs)
    \/ RevokePermission(PermInputs)

SpecAdmin == Init /\ [][NextAdmin]_vars

\* The resolver called while time passes by the lifetimes of the cache
\* entries.
NextCache ==
    \/ ValidateGitHubToken({"tok-a", "ghs-a"})
    \/ TickOf({TOKEN_CACHE_TTL * 1000, ORG_MEMBERSHIP_CACHE_TTL * 1000})

SpecCache == Init /\ [][NextCache]_vars

\* Lookups made concurrently while time passes by the lifetimes of the
\* cache entries.
NextLookups ==
    \/ Lookups(Workers, LookupInputs)
    \/ TickOf({TOKEN_CACHE_TTL * 1000, ORG_MEMBERSHIP_CACHE_TTL * 1000})

SpecLookups == Init /\ [][NextLookups]_vars

\* Requests of one user on two versions of one package.
LiveInputs ==
    [ips        |-> {"ip1"},
     tokens     |-> {"tok-a"},
     scopes     |-> {<<"a">>},
     listScopes |-> {<<"a">>},
     readTokens |-> {""},
     pkgs       |-> {<<"p">>},
     versions   |-> {V_1_0_2, V_1_0_1_b},
     lengths    |-> {10240},
     bodies     |-> {"b1"}]

NextLive == Requests({"w1"}, LiveInputs)

\* No request is being handled.
Quiescent(W) == \A w \in W : req[w].pc \in {"idle", "done"}

\* Requests handled one at a time. The runtime runs a handler until it
\* returns: a request that was received is handled to its response, while no
\* further request need arrive.
SpecLive ==
    /\ Init
    /\ [][NextLive]_vars
    /\ \A w \in {"w1"} : WF_vars(UploadIncrement(w)) /\ WF_vars(DeleteIndexWrite(w))
    /\ []<>Quiescent({"w1"})

\* Two workers handle uploads of two versions of one package at once, from a
\* client whose window is absent or admits one more.
NextUploadRace == Uploads(Workers, LiveInputs)

SpecUploadRace == InitGates /\ [][NextUploadRace]_vars

\* increment() called on the objects of two client keys, the calls of a key
\* issued one after another or at once.
InitKeys ==
    /\ bucket = <<>>
    /\ permissions = <<>>
    /\ tokenCache = <<>>
    /\ orgCache = <<>>
    /\ rate = [ip \in Keys |-> [data |-> Nothing, alarm |-> Nothing]]
    /\ now = 0
    /\ ticks = 0
    /\ served = 0
    /\ faults = 0
    /\ req = [w \in Workers |-> Idle]
    /\ norm = NoCall
    /\ authz = NoCall
    /\ limiter = NoCalls
    /\ parsed = NoCall
    /\ expires = <<>>
    /\ resolved = NoCall
    /\ created = <<>>

NextKeys == \E ip \in Keys : IssueIncrement(ip) \/ IncrementGet(ip) \/ IncrementPut(ip)

SpecKeys == InitKeys /\ [][NextKeys]_vars

\* The same requests, both archives among them, handled one at a time.
NextBodies == Requests({"w1"}, RaceInputs)

SpecBodies == Init /\ [][NextBodies]_vars

\* normalizeScope alone, on every pair of spellings of a scope.
InitNorm ==
    /\ Services
    /\ \E s \in ScopeStrings, t \in ScopeStrings :
          /\ SameUpToCase(s, t)
          /\ norm = [op |-> "input", in |-> s, other |-> t]
    /\ authz = NoCall
    /\ limiter = NoCall
    /\ parsed = NoCall
    /\ expires = <<>>
    /\ resolved = NoCall
    /\ created = <<>>

NextNorm == Normalize

SpecNorm == InitNorm /\ [][NextNorm]_vars

\* The rate limiter alone, and the clock.
InitRate ==
    /\ Services
    /\ norm = NoCall
    /\ authz = NoCall
    /\ limiter = NoSeries
    /\ parsed = NoCall
    /\ expires = <<>>
    /\ resolved = NoCall
    /\ created = <<>>

NextRate ==
    \/ \E ip \in Ips :
          \/ RLCheckLimit(ip)
          \/ RLIncrement(ip)
          \/ RLReset(ip)
          \/ RLGetStatus(ip)
          \/ RLAlarm(ip)
    \/ Tick

SpecRate == InitRate /\ [][NextRate]_vars

\* The runtime runs alarm() once the time set for it has come.
SpecRateLive == InitRate /\ [][NextRate]_vars /\ \A ip \in Ips : WF_vars(RLAlarm(ip))

\* The version of the next upload of a series, one that no earlier upload of
\* the series carried: "1.0.0", "1.0.1", ...
NextVersion == <<"1", ".", "0", ".", DigitChars[(served % 10) + 1]>>

\* A series of uploads of one user from one client, each of a new version.
SeriesInputs == [LiveInputs EXCEPT !.versions = {NextVersion}]

\* The window of a client after count uploads at time 0, none when count is 0.
WindowAfter(count) ==
    IF count = 0 THEN [data |-> Nothing, alarm |-> Nothing]
    ELSE [data  |-> Some([count |-> count, resetAt |-> WINDOW_MS]),
          alarm |-> Some(WINDOW_MS + ALARM_DELAY_MS)]

\* The client has made no upload, or eight or nine at time 0, each answered
\* 201; what they stored has been deleted, and the store calls that fail have
\* failed.
InitSeries ==
    /\ bucket = <<>>
    /\ permissions = (2 :> <<"admin">>)
    /\ tokenCache = <<>>
    /\ orgCache = <<>>
    /\ now = 0
    /\ ticks = 0
    /\ served = 0
    /\ faults = MaxFaults
    /\ req = [w \in Workers |-> Idle]
    /\ norm = NoCall
    /\ authz = NoCall
    /\ limiter = NoSeries
    /\ parsed = NoCall
    /\ expires = <<>>
    /\ resolved = NoCall
    /\ \E count \in {0, UPLOAD_LIMIT - 2, UPLOAD_LIMIT - 1} :
          /\ rate = [ip \in Ips |-> WindowAfter(count)]
          /\ created = [i \in 1..count |-> [ip |-> "ip1", at |-> 0]]

\* The client uploads version after version, one upload at a time, while
\* the hours pass and the alarm of the client's window fires.
NextSeries ==
    \/ Uploads({"w1"}, SeriesInputs)
    \/ \E ip \in Ips : RLAlarm(ip)
    \/ TickOf({WINDOW_MS})

SpecSeries == InitSeries /\ [][NextSeries]_vars

\* One worker uploads and deletes a version of a package while the other
\* uploads another version of it.
NextDeleteRace ==
    \/ Requests({"w1"}, [LiveInputs EXCEPT !.versions = {V_1_0_2}])
    \/ Uploads({"w2"}, [LiveInputs EXCEPT !.versions = {V_1_0_1_b}])

SpecDeleteRace == Init /\ [][NextDeleteRace]_vars

\* Capabilities granted and revoked by two workers at once; user 2 is an
\* administrator at first.
NextGrants == Grants(Workers, PermInputs)

SpecGrants == Init /\ [][NextGrants]_vars

\* The extraction called on every archive of Archives.
InitParse ==
    /\ Services
    /\ norm = NoCall
    /\ authz = NoCall
    /\ limiter = NoCall
    /\ expires = <<>>
    /\ resolved = NoCall
    /\ created = <<>>
    /\ \E a \in Archives : parsed = [op |-> "input", packageData |-> a]

NextParse == ExtractDependencies

SpecParse == InitParse /\ [][NextParse]_vars


\* ------------------------------------------------------------ properties

\* The request passed the gates before the existence probe: a client address, a
\* resolved user, a valid name, the handler's authorization, a valid version.
Admitted(r) ==
    /\ r.ip # ""
    /\ r.user # Nothing
    /\ validatePackageName(buildPackageName(r.scope, r.pkg))
    /\ UploadAllowed(r.user[1], r.scope)
    /\ validateVersion(r.version)

\* The upload carried a Content-Length of 1 byte to 50 MB and a readable body,
\* and no storage call of it failed.
WellFormed(r) == validateFileSize(r.length) /\ r.body \in Bodies /\ ~r.failed

\* C1 (as the code has it): requests handled one at a time, an admitted upload
\* that is not rate limited returns 409 and leaves the bucket as it found it
\* when the version's archive is stored, and otherwise returns 201 and stores
\* the archive provided its Content-Length and body are acceptable and no
\* storage call fails.
C1_CreateOnce ==
    \A w \in Workers :
        LET r == req[w]
        IN  (r.kind = "upload" /\ r.pc = "done" /\ Admitted(r) /\ r.status # 429) =>
                IF packageVersionExists(r.pre[1], r.scope, r.pkg, r.version)
                THEN r.status = 409 /\ bucket = r.pre[1]
                ELSE WellFormed(r) =>
                        /\ r.status = 201
                        /\ packageVersionExists(bucket, r.scope, r.pkg, r.version)

\* C1 as stated: every admitted first upload within the rate limit returns 201,
\* every later one 409 with the bucket unchanged.
C1_Original ==
    \A w \in Workers :
        LET r == req[w]
        IN  (r.kind = "upload" /\ r.pc = "done" /\ Admitted(r) /\ r.status # 429) =>
                IF packageVersionExists(r.pre[1], r.scope, r.pkg, r.version)
                THEN r.status = 409 /\ bucket = r.pre[1]
                ELSE r.status = 201

\* A second upload of a stored version was refused and changed nothing.
C1_Witness ==
    \E w \in Workers :
        /\ req[w].kind = "upload" /\ req[w].pc = "done" /\ req[w].status = 409
        /\ packageVersionExists(req[w].pre[1], req[w].scope, req[w].pkg, req[w].version)
        /\ bucket = req[w].pre[1]

\* An archive or a metadata document (the keys of five segments).
IsVersionRecord(key) == Len(key) = 5

\* C2 as stated: in every interleaving no step changes a stored archive or
\* metadata document; it can only be deleted.
C2_Original ==
    [][\A key \in DOMAIN bucket \cap DOMAIN bucket' :
            IsVersionRecord(key) => bucket'[key] = bucket[key]]_vars

\* C2 (as the code has it): a stored archive or metadata document is changed
\* only by an upload of that version whose existence probe ran while the archive
\* was not stored; an upload that finds the archive present changes nothing.
C2_WriteOnceUnlessRaced ==
    [][\A key \in DOMAIN bucket \cap DOMAIN bucket' :
            (IsVersionRecord(key) /\ bucket'[key] # bucket[key]) =>
                \E w \in Workers :
                    /\ req[w].kind = "upload"
                    /\ req[w].pc \in {"store", "storeMetadata"}
                    /\ req'[w].pc # req[w].pc
                    /\ key \in {buildPackageKey(req[w].scope, req[w].pkg, req[w].version),
                                buildMetadataKey(req[w].scope, req[w].pkg, req[w].version)}
                    /\ ~packageVersionExists(req[w].probed[1], req[w].scope,
                                             req[w].pkg, req[w].version)]_vars

\* Of two uploads of one version, no other request received, the second to
\* store has replaced the archive of the first.
C2_Witness ==
    /\ served = 2
    /\ \E w \in Workers, v \in Workers :
          /\ w # v
          /\ req[w].kind = "upload" /\ req[v].kind = "upload"
          /\ req[w].pc = "storeMetadata"
          /\ req[v].pc \in {"storeMetadata", "indexGet", "indexPut", "increment", "done"}
          /\ req[v].metadata # Nothing \/ req[v].pc = "storeMetadata"
          /\ req[v].status \in {0, 201}
          /\ req[w].body # req[v].body
          /\ req[v].body \in Bodies
          /\ bucket[buildPackageKey(req[w].scope, req[w].pkg, req[w].version)] = req[w].body

\* <<major, minor, patch>> of a version, its suffix set aside.
VersionTuple(version) ==
    LET parts == split(BeforeSuffix(version), ".")
    IN  <<DecimalValue(parts[1]), DecimalValue(parts[2]), DecimalValue(parts[3])>>

\* a is greater than b, the first differing component deciding.
TupleGreater(a, b) ==
    \/ a[1] > b[1]
    \/ a[1] = b[1] /\ a[2] > b[2]
    \/ a[1] = b[1] /\ a[2] = b[2] /\ a[3] > b[3]

StrictlyDescending(versions) ==
    \A i \in 1..(Len(versions) - 1) :
        TupleGreater(VersionTuple(versions[i].version), VersionTuple(versions[i + 1].version))

StoredIndexes == {key \in DOMAIN bucket : Len(key) = 4}

\* C3 as stated: every stored index is strictly descending by
\* (major, minor, patch).
C3_Original == \A key \in StoredIndexes : StrictlyDescending(bucket[key].versions)

\* C4 as stated: the latest of a version-list response is the first element of
\* the stored index, and is the latest the registry listing gives the package.
C4_Original ==
    \A rawScope \in SeqInputs.listScopes, pkg \in SeqInputs.pkgs :
        LET res   == PackageListResponse(bucket, rawScope, pkg)
            index == getIndex(bucket, normalizeScope(rawScope), pkg)
        IN  res.status = 200 =>
                /\ Len(index[1].versions) > 0
                /\ res.out[1].latest.version = index[1].versions[1].version
                /\ \A entry \in RegistryListResponse(bucket) :
                      entry.name = <<<<"@">> \o normalizeScope(rawScope), pkg>> =>
                          entry.latest = Some(res.out[1].latest.version)

\* C5: a checkLimit() made inside the window that the first of exactly
\* UPLOAD_LIMIT increment() calls opened is refused with nothing remaining, and
\* a checkLimit() made once that window has elapsed is allowed, whatever was
\* called in between.
C5_LimitThenExpiry ==
    (limiter.op = "checkLimit" /\ limiter.start # Nothing) =>
        /\ (SeriesLive(limiter.at) /\ limiter.calls = UPLOAD_LIMIT) =>
              (~limiter.result[1].allowed /\ limiter.result[1].remaining = 0)
        /\ ~SeriesLive(limiter.at) => limiter.result[1].allowed

\* checkLimit() was refused after UPLOAD_LIMIT increments and, the window
\* elapsed and no increment or reset made since, is allowed.
C5_Witness ==
    /\ limiter.op = "checkLimit"
    /\ limiter.calls = UPLOAD_LIMIT
    /\ limiter.denied
    /\ ~SeriesLive(limiter.at)
    /\ limiter.result[1].allowed

\* C6: an installation identity asking for a scope whose normalized form is not
\* its own is answered 403 installation_scope_mismatch without a membership
\* lookup, whatever the provider answers and the stores hold.
C6_InstallationScopeLocked ==
    (/\ authz.op = "checkPermissions"
     /\ authz.identity.type = "installation"
     /\ normalizeScope(authz.scope) # authz.identity.scope) =>
        /\ authz.response = Denied("installation_scope_mismatch")
        /\ ~authz.lookup

\* An installation was refused another owner's scope while the membership
\* cache held an administrator's entry.
C6_Witness ==
    /\ authz.op = "checkPermissions"
    /\ authz.identity.type = "installation"
    /\ normalizeScope(authz.scope) # authz.identity.scope
    /\ authz.response = Denied("installation_scope_mismatch")
    /\ \E key \in DOMAIN orgCache : orgCache[key] = "admin"

\* C7 as stated, one half of it: an upload or a delete that the handler refuses
\* for its scope is one the authorizer refuses for some answer of the provider.
C7_Original ==
    \A w \in Workers :
        LET r == req[w]
        IN  (/\ r.kind \in {"upload", "delete"}
             /\ r.pc = "done"
             /\ r.status = 403
             /\ r.error = "forbidden") =>
                \E answer \in Answers :
                    checkPermissions(UserIdentity(r.user[1]), r.scope, r.token, answer).response
                        # Nothing

\* C8 as stated: the scope segment of every key stored is a normalized scope.
C8_Original ==
    \A key \in DOMAIN bucket : key[2] = <<"@">> \o normalizeScope(slice1(key[2]))

\* The scope begins with two '@'.
DoubleAt(s) == Len(s) >= 2 /\ s[1] = "@" /\ s[2] = "@"

SoleVersion(index, version) ==
    /\ index # Nothing
    /\ Len(index[1].versions) = 1
    /\ index[1].versions[1].version = version

\* C10 as stated: no index is stored with an empty version list, and after a
\* delete that succeeded on the only version its index listed the index is gone
\* and the version list of the package is 404.
C10_Original ==
    /\ \A key \in StoredIndexes : Len(bucket[key].versions) > 0
    /\ \A w \in Workers :
          LET r == req[w]
          IN  (/\ r.kind = "delete" /\ r.pc = "done" /\ r.status = 200
               /\ SoleVersion(getIndex(r.pre[1], r.scope, r.pkg), r.version)) =>
                  /\ getIndex(bucket, r.scope, r.pkg) = Nothing
                  /\ PackageListResponse(bucket, r.scope, r.pkg).status = 404

\* The archive has no file whose name ends, in any case, with qll.info.
NoManifest(packageData) ==
    \A i \in 1..Len(packageData.files) :
        ~endsWith(toLowerCase(packageData.files[i].path), QLL_INFO)

\* The first file named qll.info is not valid JSON.
BadManifest(packageData) ==
    \E i \in 1..Len(packageData.files) :
        /\ endsWith(toLowerCase(packageData.files[i].path), QLL_INFO)
        /\ \A j \in 1..(i - 1) :
              ~endsWith(toLowerCase(packageData.files[j].path), QLL_INFO)
        /\ ~packageData.files[i].content.parses

Unusable(packageData) ==
    ~packageData.unzips \/ NoManifest(packageData) \/ BadManifest(packageData)

\* C11 as stated: extractDependencies never throws; for an archive that cannot
\* be unzipped, holds no manifest or holds an unparsable one it returns the
\* empty dependency map.
C11_Original ==
    parsed.op = "extractDependencies" =>
        /\ parsed.result # Nothing
        /\ Unusable(parsed.packageData) => parsed.result = Some({})

\* C11: extractDependencies throws exactly for an archive that cannot be
\* unzipped, holds no manifest or holds an unparsable one; for every other
\* archive it returns a map, the empty one when the manifest declares no
\* dependencies array.
C11_ThrowsOnUnusableArchive ==
    parsed.op = "extractDependencies" =>
        /\ parsed.result = Nothing <=> Unusable(parsed.packageData)
        /\ (/\ ~Unusable(parsed.packageData)
            /\ FindManifest(parsed.packageData.files)[1].dependencies = Nothing)
           => parsed.result = Some({})

C11_Witness ==
    /\ parsed.op = "extractDependencies"
    /\ parsed.packageData.unzips
    /\ parsed.packageData.files = <<File(README, Unparsable)>>
    /\ parsed.result = Nothing

\* The extraction of the request's archive throws.
ExtractionFails(r) ==
    r.body \in Bodies /\ extractDependencies(PackageData(r.body)) = Nothing

Listed(b, r) ==
    /\ buildIndexKey(r.scope, r.pkg) \in DOMAIN b
    /\ \E i \in 1..Len(b[buildIndexKey(r.scope, r.pkg)].versions) :
          b[buildIndexKey(r.scope, r.pkg)].versions[i].version = r.version

\* C12: an upload whose archive is stored and whose extraction throws goes on:
\* unless the store call itself fails, the metadata document is written with
\* an empty dependency map; the index update follows and, unless its store
\* call fails, lists the version; then the client's counter is incremented
\* and 201 is returned.
C12_ExtractionFailureSwallowed ==
    [][\A w \in Workers :
          LET r == req[w]
              q == req'[w]
          IN  (r.kind = "upload" /\ ExtractionFails(r) /\ q # r) =>
                /\ (r.pc = "storeMetadata" /\ faults' = faults) =>
                      /\ q.pc = "indexGet"
                      /\ q.metadata # Nothing /\ q.metadata[1].dependencies = {}
                      /\ bucket'[buildMetadataKey(r.scope, r.pkg, r.version)].dependencies = {}
                /\ r.pc = "indexGet" => q.pc \in {"indexPut", "increment"}
                /\ r.pc = "indexPut" =>
                      /\ q.pc = "increment"
                      /\ faults' = faults => Listed(bucket', r)
                /\ r.pc = "increment" =>
                      /\ q.pc = "done" /\ q.status = 201
                      /\ rate'[r.ip] = increment(rate[r.ip], now)
                      /\ rate'[r.ip].data # Nothing
      ]_vars

\* An upload whose archive holds no manifest returned 201 and its metadata
\* document is stored with no dependencies.
C12_Witness ==
    \E w \in Workers :
        LET r == req[w]
        IN  /\ r.kind = "upload" /\ r.pc = "done" /\ r.status = 201
            /\ ExtractionFails(r)
            /\ buildMetadataKey(r.scope, r.pkg, r.version) \in DOMAIN bucket
            /\ bucket[buildMetadataKey(r.scope, r.pkg, r.version)].dependencies = {}
            /\ Listed(bucket, r)
            /\ rate[r.ip].data # Nothing

\* The gates of the upload, on the request and the state it arrived in.
NoAddress(r) == r.ip = ""

NoIdentity(r) == r.token = "" \/ GitHubUserOf(r.token) = Nothing

BadName(r) == ~validatePackageName(buildPackageName(r.scope, r.pkg))

Unauthorized(r) == ~UploadAllowed(GitHubUserOf(r.token)[1], r.scope)

BadVersion(r) == ~validateVersion(r.version)

Exists(r) == packageVersionExists(r.pre[1], r.scope, r.pkg, r.version)

Limited(r) == r.limited

Oversized(r) == ~validateFileSize(r.length)

Answer(r) == <<r.status, r.error>>

\* The statuses of the gates.
Rejections ==
    {<<400, "bad_request">>, <<401, "unauthorized">>, <<403, "invalid_package_name">>,
     <<403, "forbidden">>, <<403, "invalid_version">>, <<409, "version_exists">>,
     <<429, "rate_limit_exceeded">>, <<413, "payload_too_large">>}

\* C13 as stated: with a client address, the earliest failing gate in the
\* order identity, name and version format, scope authorization, version
\* absent, rate limit, size decides the response.
C13_Original ==
    \A w \in Workers :
        LET r == req[w]
        IN  (r.kind = "upload" /\ r.pc = "done" /\ ~NoAddress(r)) =>
              Answer(r) =
                IF NoIdentity(r) THEN <<401, "unauthorized">>
                ELSE IF BadName(r) THEN <<403, "invalid_package_name">>
                ELSE IF BadVersion(r) THEN <<403, "invalid_version">>
                ELSE IF Unauthorized(r) THEN <<403, "forbidden">>
                ELSE IF Exists(r) THEN <<409, "version_exists">>
                ELSE IF Limited(r) THEN <<429, "rate_limit_exceeded">>
                ELSE IF Oversized(r) THEN <<413, "payload_too_large">>
                ELSE Answer(r)

\* C13: the earliest failing gate in the order client address (400), identity
\* (401), name format (403), scope authorization (403), version format (403),
\* version absent (409), rate limit (429), size (413) decides the response;
\* a request that fails none of them gets none of their responses.
C13_GateOrder ==
    \A w \in Workers :
        LET r == req[w]
        IN  (r.kind = "upload" /\ r.pc = "done") =>
              IF NoAddress(r) THEN Answer(r) = <<400, "bad_request">>
              ELSE IF NoIdentity(r) THEN Answer(r) = <<401, "unauthorized">>
              ELSE IF BadName(r) THEN Answer(r) = <<403, "invalid_package_name">>
              ELSE IF Unauthorized(r) THEN Answer(r) = <<403, "forbidden">>
              ELSE IF BadVersion(r) THEN Answer(r) = <<403, "invalid_version">>
              ELSE IF Exists(r) THEN Answer(r) = <<409, "version_exists">>
              ELSE IF Limited(r) THEN Answer(r) = <<429, "rate_limit_exceeded">>
              ELSE IF Oversized(r) THEN Answer(r) = <<413, "payload_too_large">>
              ELSE Answer(r) \notin Rejections

\* An upload of a stored version with an oversized payload, by a client whose
\* window is exhausted, was answered 409.
C13_Witness ==
    \E w \in Workers :
        LET r == req[w]
        IN  /\ r.kind = "upload" /\ r.pc = "done"
            /\ ~NoAddress(r) /\ ~NoIdentity(r) /\ ~BadName(r) /\ ~Unauthorized(r)
            /\ ~BadVersion(r)
            /\ Exists(r) /\ Limited(r) /\ Oversized(r)
            /\ r.status = 409

ReadKinds == {"download", "metadata", "list", "registry"}

\* C14: a download, a metadata request, a version list and a registry list
\* are answered in one step from the bucket alone, whatever credential they
\* carry and whatever the client's rate window holds: never 401, 403 or 429,
\* found exactly when the object asked for is stored, and the bucket, the
\* permission store, the token and membership caches and the rate limiters
\* are left as they were.
C14_ReadsBypass ==
    [][\A w \in Workers :
          LET q == req'[w]
          IN  (q # req[w] /\ q.kind \in ReadKinds) =>
                /\ q.pc = "done"
                /\ q.status \notin {401, 403, 429}
                /\ UNCHANGED <<bucket, permissions, tokenCache, orgCache, rate>>
                /\ q.kind = "download" =>
                      /\ q.status \in {200, 206, 304, 404}
                      /\ q.status = 404 <=>
                            buildPackageKey(q.scope, q.pkg, q.version) \notin DOMAIN bucket
                /\ q.kind = "metadata" =>
                      q.status = IF buildMetadataKey(q.scope, q.pkg, q.version) \in DOMAIN bucket
                                 THEN 200 ELSE 404
                /\ q.kind = "list" =>
                      q.status = IF buildIndexKey(normalizeScope(q.scope), q.pkg) \in DOMAIN bucket
                                 THEN 200 ELSE 404
                /\ q.kind = "registry" => q.status = 200
      ]_vars

\* The client's window admits no upload.
Exhausted(ip) ==
    /\ rate[ip].data # Nothing
    /\ rate[ip].data[1].count >= UPLOAD_LIMIT
    /\ now < rate[ip].data[1].resetAt

\* An archive was downloaded without a credential while the only client's
\* window was exhausted.
C14_Witness ==
    \E w \in Workers :
        /\ req[w].kind = "download" /\ req[w].pc = "done" /\ req[w].status = 200
        /\ req[w].token = ""
        /\ req[w].out # Nothing /\ req[w].out[1].body \in Bodies
        /\ \A ip \in Ips : Exhausted(ip)

\* The token resolves to no GitHub user.
NoCredential(token) == token = "" \/ GitHubUserOf(token) = Nothing

\* C15: a revoke or list request without a valid credential is answered 401,
\* one whose requester does not hold 'admin' when it is handled is answered
\* 403, and both leave the permission store as it was.
C15_AdminOnly ==
    [][\A w \in Workers :
          LET q == req'[w]
          IN  (q # req[w] /\ q.kind \in {"revoke", "permissions"}) =>
                /\ NoCredential(q.token) =>
                      /\ q.status = 401
                      /\ permissions' = permissions
                /\ (~NoCredential(q.token) /\ ~isAdmin(GitHubUserOf(q.token)[1].id)) =>
                      /\ q.status = 403
                      /\ permissions' = permissions
                /\ q.kind = "permissions" => permissions' = permissions
      ]_vars

\* A user who is no administrator asked to revoke the administrator's 'admin'
\* and was refused; the capability is still held.
C15_Witness ==
    \E w \in Workers :
        /\ req[w].kind = "revoke" /\ req[w].pc = "done" /\ req[w].status = 403
        /\ req[w].token = "tok-a"
        /\ req[w].target = <<"2">> /\ req[w].permission = "admin"
        /\ ~isAdmin(1) /\ isAdmin(2)

\* C16: when the store call for the metadata document fails, the upload ends
\* with 500 at that step; the archive it stored stays, no metadata document
\* and no index is written, and no rate window changes.
C16_MetadataFailureAborts ==
    [][\A w \in Workers :
          LET r == req[w]
              q == req'[w]
          IN  (r.kind = "upload" /\ r.pc = "storeMetadata" /\ q # r /\ faults' # faults) =>
                /\ q.pc = "done" /\ q.status = 500 /\ q.error = "internal_error"
                /\ bucket' = bucket
                /\ getPackage(bucket', r.scope, r.pkg, r.version) = Some(r.body)
                /\ getMetadata(r.pre[1], r.scope, r.pkg, r.version) = Nothing
                      => getMetadata(bucket', r.scope, r.pkg, r.version) = Nothing
                /\ rate' = rate
      ]_vars

\* An upload ended with 500 after its archive was stored: the archive is
\* there, no metadata document and no index are, and the client has no window.
C16_Witness ==
    \E w \in Workers :
        LET r == req[w]
        IN  /\ r.kind = "upload" /\ r.pc = "done" /\ r.status = 500 /\ r.failed
            /\ getPackage(bucket, r.scope, r.pkg, r.version) = Some(r.body)
            /\ getMetadata(bucket, r.scope, r.pkg, r.version) = Nothing
            /\ getIndex(bucket, r.scope, r.pkg) = Nothing
            /\ rate[r.ip].data = Nothing

\* The count of the client's window after one more upload.
CountAfter(obj, t) ==
    IF obj.data # Nothing /\ t < obj.data[1].resetAt THEN obj.data[1].count + 1 ELSE 1

\* C17: when the read or the write of the index fails, the bucket and the rate
\* windows are left as they were and the upload goes on to its last step; the
\* upload whose index update failed ends with 201, its archive and its
\* metadata document stored as it wrote them, and that last step raises the
\* client's count by one.
C17_IndexFailureSwallowed ==
    [][\A w \in Workers :
          LET r == req[w]
              q == req'[w]
          IN  (r.kind = "upload" /\ q # r) =>
                /\ (r.pc \in {"indexGet", "indexPut"} /\ faults' # faults) =>
                      /\ q.pc = "increment" /\ q.indexFailed
                      /\ bucket' = bucket
                /\ r.pc \in {"indexGet", "indexPut"} => rate' = rate
                /\ (r.pc = "increment" /\ r.indexFailed) =>
                      /\ q.pc = "done" /\ q.status = 201
                      /\ getPackage(bucket', r.scope, r.pkg, r.version) = Some(r.body)
                      /\ getMetadata(bucket', r.scope, r.pkg, r.version) = r.metadata
                      /\ rate'[r.ip].data # Nothing
                      /\ rate'[r.ip].data[1].count = CountAfter(rate[r.ip], now)
      ]_vars

\* An upload whose index update failed returned 201: archive and metadata
\* document are stored, the index does not list the version, the count is 1.
C17_Witness ==
    \E w \in Workers :
        LET r == req[w]
        IN  /\ r.kind = "upload" /\ r.pc = "done" /\ r.status = 201 /\ r.indexFailed
            /\ getPackage(bucket, r.scope, r.pkg, r.version) = Some(r.body)
            /\ getMetadata(bucket, r.scope, r.pkg, r.version) = r.metadata
            /\ ~Listed(bucket, r)
            /\ rate[r.ip].data # Nothing /\ rate[r.ip].data[1].count = 1

\* Archive and metadata document of the version are stored.
Persisted(scope, pkg, version) ==
    /\ getPackage(bucket, scope, pkg, version) # Nothing
    /\ getMetadata(bucket, scope, pkg, version) # Nothing

ListedVersion(scope, pkg, version) ==
    /\ getIndex(bucket, scope, pkg) # Nothing
    /\ \E i \in 1..Len(getIndex(bucket, scope, pkg)[1].versions) :
          getIndex(bucket, scope, pkg)[1].versions[i].version = version

\* The version is stored and the last request was an upload of another
\* version of the package that returned 201 after updating the index: an
\* index update of the package succeeded after the version was uploaded.
UpdatedLater(scope, pkg, version) ==
    /\ Persisted(scope, pkg, version)
    /\ \E w \in Workers :
          /\ req[w].kind = "upload" /\ req[w].pc = "done" /\ req[w].status = 201
          /\ ~req[w].indexFailed
          /\ req[w].scope = scope /\ req[w].pkg = pkg /\ req[w].version # version
          /\ Listed(bucket, req[w])

\* C18 as stated: a version stored by a 201 upload, also one whose own index
\* update failed, appears in the index of its package some time after a later
\* index update of the package has succeeded (unless it is deleted).
C18_Original ==
    \A scope \in LiveInputs.scopes, pkg \in LiveInputs.pkgs, version \in LiveInputs.versions :
        UpdatedLater(scope, pkg, version)
            ~> (ListedVersion(scope, pkg, version) \/ ~Persisted(scope, pkg, version))

\* A call of the authorizer: the store is as it was, no capability call made.
Checked ==
    /\ served' = served
    /\ authz'.op = "checkPermissions"
    /\ <<authz', orgCache'>> # <<authz, orgCache>>

\* The call allowed the request and asked for no membership.
Bypassed(call) == call.response = Nothing /\ ~call.lookup

\* C19: a call of the authorizer for a user identity that holds "admin" in
\* the permission store at the time of the call allows the target scope,
\* whatever it is, and asks for no membership; for a user identity that does
\* not hold it, a target scope other than the identity's own is never allowed
\* without the membership being asked for. The store read is the one of the
\* time of the call, after every grant and revoke made before.
C19_AdminBypass ==
    [][Checked /\ authz'.identity.type = "user"
          => LET userId == authz'.identity.userId[1]
                 own    == authz'.identity.scope = normalizeScope(authz'.scope)
             IN  /\ "admin" \in Range(getUserPermissions(userId)) => Bypassed(authz')
                 /\ ~own => (Bypassed(authz')
                               <=> "admin" \in Range(getUserPermissions(userId)))]_vars

\* A user made administrator by a grant is allowed a scope that is not their
\* own, no membership asked for.
C19_Witness ==
    /\ authz.op = "checkPermissions"
    /\ authz.identity.type = "user"
    /\ authz.identity.scope # normalizeScope(authz.scope)
    /\ Bypassed(authz)
    /\ served > 0
    /\ isAdmin(authz.identity.userId[1])

\* The membership the call of the authorizer went by: the cached role when
\* one was cached before the call, else the provider's answer.
Membership(call) ==
    LET cacheKey == <<call.token, call.identity.scope, normalizeScope(call.scope)>>
    IN  IF cacheKey \in DOMAIN orgCache
        THEN [cached |-> TRUE, value |-> orgCache[cacheKey]]
        ELSE [cached |-> FALSE, value |-> call.answer]

\* An administrative role in an active state.
ActiveAdmin(membership) ==
    \/ membership.cached /\ membership.value = "admin"
    \/ ~membership.cached /\ membership.value = "admin-active"

\* A call for a user identity that is no global administrator, on a target
\* scope that is not the identity's own.
OrgChecked ==
    /\ Checked
    /\ authz'.identity.type = "user"
    /\ ~("admin" \in Range(getUserPermissions(authz'.identity.userId[1])))
    /\ authz'.identity.scope # normalizeScope(authz'.scope)

\* C20: for a user identity that is no global administrator and whose scope
\* is not the normalized target scope, the authorizer allows the request
\* exactly when the membership it goes by, cached or fresh, is an
\* administrative role in an active state; for every other membership or
\* failure the response has status 403.
C20_OrgAdminOnly ==
    [][OrgChecked
          => /\ authz'.response = Nothing <=> ActiveAdmin(Membership(authz'))
             /\ ~ActiveAdmin(Membership(authz'))
                   => authz'.response # Nothing /\ authz'.response[1].status = 403]_vars

\* A user that is no global administrator is allowed another scope on the
\* provider's answer, and is refused one on a cached role.
C20_Witness ==
    /\ authz.op = "checkPermissions"
    /\ authz.identity.type = "user"
    /\ ~isAdmin(authz.identity.userId[1])
    /\ authz.identity.scope # normalizeScope(authz.scope)
    /\ authz.lookup
    /\ authz.response = Nothing
    /\ authz.answer = "admin-active"
    /\ \E cacheKey \in DOMAIN orgCache : orgCache[cacheKey] \in {"member", "not_member"}

\* The membership was established: a role was cached, or the provider
\* answered with a membership or with "not a member".
Verified(membership) ==
    \/ membership.cached
    \/ membership.value \in {"404", "admin-active", "admin-pending", "member-active"}

\* The provider refused the membership request: the credential lacks the scope.
Unverifiable(membership) == ~membership.cached /\ membership.value = "403"

\* C21 as stated: a denial of the membership branch has the reason
\* "insufficient_permissions" exactly when the credential lacks the scope
\* the membership request needs, and "forbidden" exactly when the membership
\* was established and is no active administrator's.
C21_Original ==
    [][OrgChecked /\ authz'.response # Nothing
          => /\ authz'.response[1].error = "insufficient_permissions"
                   <=> Unverifiable(Membership(authz'))
             /\ authz'.response[1].error = "forbidden"
                   <=> (Verified(Membership(authz')) /\ ~ActiveAdmin(Membership(authz')))]_vars

\* A call of the resolver.
Resolving ==
    /\ ticks' = ticks
    /\ resolved'.op = "validateGitHubToken"
    /\ <<resolved', tokenCache'>> # <<resolved, tokenCache>>

UserLookupSucceeds(call) == call.userAnswer.status = 200

InstallationLookupSucceeds(call) ==
    call.installationAnswer.status = 200 /\ Len(call.installationAnswer.owners) >= 1

\* C22: the resolver returns the cached identity when the credential has a
\* live cache entry; else a user identity when the user lookup succeeds; else
\* an installation identity when the installation lookup succeeds with a
\* repository; else none. An identity it resolved is written to the cache,
\* and a resolution that returns none or hits the cache leaves the cache as
\* it was.
C22_Resolution ==
    [][Resolving
          => LET call == resolved'
                 hit  == call.token \in DOMAIN tokenCache
             IN  /\ hit => /\ call.identity = Some(tokenCache[call.token])
                           /\ tokenCache' = tokenCache
                 /\ ~hit /\ UserLookupSucceeds(call)
                       => /\ call.identity # Nothing
                          /\ call.identity[1].type = "user"
                          /\ call.identity[1].scope = toLowerCase(call.userAnswer.user.login)
                          /\ call.identity[1].userId = Some(call.userAnswer.user.id)
                 /\ ~hit /\ ~UserLookupSucceeds(call) /\ InstallationLookupSucceeds(call)
                       => /\ call.identity # Nothing
                          /\ call.identity[1].type = "installation"
                          /\ call.identity[1].scope
                                = toLowerCase(call.installationAnswer.owners[1])
                 /\ ~hit /\ ~UserLookupSucceeds(call) /\ ~InstallationLookupSucceeds(call)
                       => call.identity = Nothing
                 /\ ~hit /\ call.identity # Nothing
                       => tokenCache' = Put(tokenCache, call.token, call.identity[1])
                 /\ call.identity = Nothing => tokenCache' = tokenCache]_vars

\* An installation was resolved from the provider's answers and is cached.
C22_Witness ==
    /\ resolved.op = "validateGitHubToken"
    /\ resolved.fetched
    /\ ~UserLookupSucceeds(resolved)
    /\ resolved.identity # Nothing
    /\ resolved.identity[1].type = "installation"
    /\ resolved.token \in DOMAIN tokenCache
    /\ tokenCache[resolved.token] = resolved.identity[1]

\* The entries of the two caches: <<namespace, key>> of each.
CacheKeys(tokens, orgs) ==
    {<<"token", key>> : key \in DOMAIN tokens} \cup {<<"org", key>> : key \in DOMAIN orgs}

CacheValue(tokens, orgs, k) == IF k[1] = "token" THEN tokens[k[2]] ELSE orgs[k[2]]

\* The entry a lookup is about, and what the lookup returns from it.
LookupKey(r) == IF r.kind = "membership" THEN <<"org", MembershipKey(r)>> ELSE <<"token", r.token>>

Cached(r) ==
    IF r.kind = "membership" THEN Some(orgCache[MembershipKey(r)] = "admin")
    ELSE Some(Some(tokenCache[r.token]))

TtlOf(k) == IF k[1] = "token" THEN TOKEN_CACHE_TTL ELSE ORG_MEMBERSHIP_CACHE_TTL

\* Every entry has an expiration, later than now and no later than its
\* lifetime from now.
EntriesLive ==
    \A k \in CacheKeys(tokenCache, orgCache) :
        /\ k \in DOMAIN expires
        /\ now < expires[k]
        /\ expires[k] <= now + TtlOf(k) * 1000

\* A lookup that begins: answered from the live entry, the caches left as
\* they are and no provider asked, or on to the provider when there is none.
HitOrFetch ==
    \A w \in Workers :
        served' = served + 1 /\ req'[w] # req[w]
           => IF LookupKey(req'[w]) \in CacheKeys(tokenCache, orgCache)
              THEN /\ req'[w].pc = "done"
                   /\ req'[w].out = Cached(req'[w])
                   /\ <<tokenCache', orgCache', expires'>> = <<tokenCache, orgCache, expires>>
              ELSE req'[w].pc = "fetch"

\* Time passing removes the entries whose expiration has come, and no other.
ExpiresByTtl ==
    ticks' # ticks
       => /\ CacheKeys(tokenCache', orgCache')
                = {k \in CacheKeys(tokenCache, orgCache) : expires[k] > now'}
          /\ \A k \in CacheKeys(tokenCache', orgCache') :
                /\ CacheValue(tokenCache', orgCache', k) = CacheValue(tokenCache, orgCache, k)
                /\ expires'[k] = expires[k]

\* The entry is after the step what it was before.
Untouched(k) ==
    /\ k \in CacheKeys(tokenCache', orgCache')
    /\ CacheValue(tokenCache', orgCache', k) = CacheValue(tokenCache, orgCache, k)
    /\ expires'[k] = expires[k]

BothUploaded ==
    /\ \A w \in Workers :
          /\ req[w].kind = "upload" /\ req[w].pc = "done" /\ req[w].status = 201
          /\ ~req[w].indexFailed
    /\ \A v, w \in Workers :
          <<req[v].scope, req[v].pkg, req[v].version>> = <<req[w].scope, req[w].pkg, req[w].version>>

\* The index entry of the version the upload was about, as a set (one entry,
\* or none).
IndexEntries(b, r) ==
    IF getIndex(b, r.scope, r.pkg) = Nothing THEN {}
    ELSE {getIndex(b, r.scope, r.pkg)[1].versions[i] :
             i \in {j \in 1..Len(getIndex(b, r.scope, r.pkg)[1].versions) :
                       getIndex(b, r.scope, r.pkg)[1].versions[j].version = r.version}}

\* The metadata document and the index entry carry the data of the upload.
CarriesDataOf(b, r) ==
    /\ getMetadata(b, r.scope, r.pkg, r.version) = r.metadata
    /\ \A e \in IndexEntries(b, r) :
          /\ e.integrity = r.metadata[1].integrity
          /\ e.size = r.metadata[1].size
          /\ e.uploadedAt = r.metadata[1].uploadedAt
    /\ IndexEntries(b, r) # {}

\* C24 as stated: after two concurrent uploads of one version have both
\* returned 201, the metadata document and the index entry of the version
\* both carry the data of one of the two uploads, the one that wrote last.
C24_Original ==
    BothUploaded => \E w \in Workers : CarriesDataOf(bucket, req[w])

\* Both workers have finished an upload with 201, of two versions of one
\* package, the index update of neither failed.
BothVersionsUploaded ==
    /\ \A w \in Workers :
          /\ req[w].kind = "upload" /\ req[w].pc = "done" /\ req[w].status = 201
          /\ ~req[w].indexFailed
    /\ \A v, w \in Workers :
          v # w => /\ <<req[v].scope, req[v].pkg>> = <<req[w].scope, req[w].pkg>>
                   /\ req[v].version # req[w].version

\* C25: when two uploads of two versions of one package have both returned
\* 201 with their index updates made, both archives and both metadata
\* documents are stored and the index is the document that one of the two
\* wrote, which lists that upload's version: the later write replaces the
\* earlier one whole.
C25_LastIndexWriteWins ==
    BothVersionsUploaded
       => /\ \A w \in Workers : Persisted(req[w].scope, req[w].pkg, req[w].version)
          /\ \E w \in Workers :
                /\ getIndex(bucket, req[w].scope, req[w].pkg) = req[w].index
                /\ Listed(bucket, req[w])

\* Both uploads returned 201 and stored archive and metadata, and the index
\* lists one of the two versions only.
C25_Witness ==
    /\ BothVersionsUploaded
    /\ \A w \in Workers : Persisted(req[w].scope, req[w].pkg, req[w].version)
    /\ \E v, w \in Workers : Listed(bucket, req[v]) /\ ~Listed(bucket, req[w])

\* Uploads that have passed the rate check and not yet incremented the counter.
PastCheck(ip) ==
    {w \in Workers : /\ req[w].kind = "upload" /\ req[w].ip = ip
                     /\ req[w].pc \in {"store", "storeMetadata", "indexGet", "indexPut",
                                       "increment"}}

CountOf(ip) == IF rate[ip].data = Nothing THEN 0 ELSE rate[ip].data[1].count

\* C26: the stored count of a client can pass the limit, by no more than the
\* uploads of that client that were past the rate check at once: with the
\* uploads still on their way to the increment counted in, it stays within
\* the limit plus the number of concurrent uploads less one.
C26_BoundedOvershoot ==
    \A ip \in Ips :
        CountOf(ip) + Cardinality(PastCheck(ip)) <= UPLOAD_LIMIT + Cardinality(Workers) - 1

\* Two uploads of a client whose window admitted one more have both returned
\* 201, and the stored count is past the limit.
C26_Witness ==
    /\ \A w \in Workers : req[w].kind = "upload" /\ req[w].pc = "done" /\ req[w].status = 201
    /\ \E ip \in Ips :
          /\ \A w \in Workers : req[w].ip = ip
          /\ CountOf(ip) > UPLOAD_LIMIT

\* The count stored for a key, 0 when no window is.
StoredCount(ip) == IF rate[ip].data = Nothing THEN 0 ELSE rate[ip].data[1].count

\* C27: the increment() calls of a key are run one at a time, so inside one
\* window the stored count of a key and the calls of that key that have not
\* finished add up to the calls issued on it, and the count is the number of
\* calls issued once all have finished; a step of one key's object leaves the
\* window of every other key as it is.
C27_Serialized ==
    [][/\ \A ip \in Keys :
             StoredCount(ip)' + limiter'.pending[ip] + Len(limiter'.running[ip])
                = limiter'.issued[ip]
       /\ \A ip \in Keys : Len(limiter'.running[ip]) <= 1
       /\ \A ip \in Keys :
             rate'[ip] # rate[ip]
                => /\ Len(limiter.running[ip]) = 1 /\ Len(limiter'.running[ip]) = 0
                   /\ \A other \in Keys \ {ip} : rate'[other] = rate[other]]_vars

\* Calls of one key issued while another was under way have all finished,
\* every one counted, and the other key holds its own count.
C27_Witness ==
    /\ limiter.overlap["ip1"]
    /\ limiter.pending["ip1"] = 0 /\ Len(limiter.running["ip1"]) = 0
    /\ limiter.issued["ip1"] >= 2
    /\ StoredCount("ip1") = limiter.issued["ip1"]
    /\ StoredCount("ip2") = 1

\* A step that is an increment() call on the object of the key.
Incremented(ip) == limiter'.op = "increment" /\ rate'[ip] # rate[ip]

\* C28: an increment() inside a live window raises count by exactly 1 and
\* leaves resetAt as it is; an increment() with no window stored, or at or
\* after resetAt, stores count 1 and resetAt one hour from now, whatever the
\* old count was.
C28_WindowInvariant ==
    [][\A ip \in Ips :
          Incremented(ip)
             => /\ rate'[ip].data # Nothing
                /\ IF rate[ip].data # Nothing /\ now < rate[ip].data[1].resetAt
                   THEN /\ rate'[ip].data[1].count = rate[ip].data[1].count + 1
                        /\ rate'[ip].data[1].resetAt = rate[ip].data[1].resetAt
                   ELSE /\ rate'[ip].data[1].count = 1
                        /\ rate'[ip].data[1].resetAt = now + 3600000]_vars

\* An increment() made an hour or more after the first one has started a
\* window of its own with count 1, and another one has raised that count.
C28_Witness ==
    /\ limiter.op = "increment"
    /\ now >= WINDOW_MS
    /\ \E ip \in Ips :
          /\ rate[ip].data # Nothing
          /\ rate[ip].data[1].count = 2
          /\ rate[ip].data[1].resetAt > WINDOW_MS
          /\ rate[ip].data[1].resetAt <= now + WINDOW_MS

\* The alarm of the key's object is set and its time has come.
AlarmDue(ip) == rate[ip].alarm # Nothing /\ now >= rate[ip].alarm[1]

\* C29: while a window is stored, an alarm is set for one second after the
\* window's resetAt; the alarm handler deletes the window exactly when the
\* window has expired and leaves a live one as it is; and a stored window
\* whose alarm has come due is removed, unless an increment() or reset()
\* replaces or removes it first.
C29_Reclamation ==
    /\ [](\A ip \in Ips :
             rate[ip].data # Nothing
                => rate[ip].alarm = Some(rate[ip].data[1].resetAt + 1000))
    /\ [][\A ip \in Ips :
             limiter'.op = "alarm" /\ rate'[ip] # rate[ip]
                => IF rate[ip].data # Nothing /\ now >= rate[ip].data[1].resetAt
                   THEN rate'[ip].data = Nothing
                   ELSE rate'[ip].data = rate[ip].data]_vars
    /\ \A ip \in Ips :
          (rate[ip].data # Nothing /\ AlarmDue(ip))
             ~> (rate[ip].data = Nothing \/ ~AlarmDue(ip))

\* The alarm has fired after increments were made and the hour was over, and
\* the window is gone.
C29_Witness ==
    /\ limiter.op = "alarm"
    /\ limiter.calls > 0
    /\ now >= WINDOW_MS + ALARM_DELAY_MS
    /\ \A ip \in Ips : rate[ip].data = Nothing /\ rate[ip].alarm = Nothing

\* No key of the store maps to an empty list or to a list holding a
\* capability twice.
WellShaped(store) ==
    \A userId \in DOMAIN store :
        /\ Len(store[userId]) > 0
        /\ \A i, j \in 1..Len(store[userId]) : store[userId][i] = store[userId][j] => i = j

\* C30: every store reached by grants and revokes has no key with an empty
\* list and no list holding a capability twice, and so has the store after
\* one more grant or revoke; a grant of a capability the user holds leaves the
\* store as it is, a grant of one the user lacks appends it (creating the key
\* when the user has none), and a revoke leaves the user's other capabilities
\* and deletes the key when none is left.
C30_StoreShape ==
    /\ WellShaped(permissions)
    /\ \A userId \in UserIds, permission \in PermInputs.permissions :
          LET held    == getUserPermissions(userId)
              granted == grantPermission(userId, permission)
              revoked == revokePermission(userId, permission)
              others  == SelectSeq(held, LAMBDA p : p # permission)
          IN  /\ WellShaped(granted) /\ WellShaped(revoked)
              /\ permission \in Range(held) => granted = permissions
              /\ permission \notin Range(held)
                    => granted = Put(permissions, userId, Append(held, permission))
              /\ userId \in DOMAIN revoked <=> Len(others) > 0
              /\ userId \in DOMAIN revoked => revoked[userId] = others
              /\ \A other \in UserIds \ {userId} :
                    <<other \in DOMAIN granted, other \in DOMAIN revoked>>
                        = <<other \in DOMAIN permissions, other \in DOMAIN permissions>>

\* After three calls or more, one user holds two capabilities, granted one
\* after the other to a store that had no key, and no other key is stored.
C30_Witness ==
    /\ served >= 3
    /\ DOMAIN permissions = {1}
    /\ permissions[1] = <<"publish", "admin">>

\* The upload was refused at a gate: no client address, no user, no right to
\* the scope or a malformed name or version, a stored version, an exhausted
\* window, a Content-Length out of range.
RejectedAtGate(r) ==
    /\ r.kind = "upload"
    /\ r.pc = "done"
    /\ \/ r.status = 400 /\ r.error = "bad_request"
       \/ r.status \in {401, 403, 409, 429, 413}

\* The upload has stored its archive and its metadata document, and both are
\* in the bucket.
PersistedBoth(r) ==
    /\ r.kind = "upload"
    /\ r.metadata # Nothing
    /\ buildPackageKey(r.scope, r.pkg, r.version) \in DOMAIN bucket
    /\ buildMetadataKey(r.scope, r.pkg, r.version) \in DOMAIN bucket
    /\ bucket[buildPackageKey(r.scope, r.pkg, r.version)] = r.body
    /\ bucket[buildMetadataKey(r.scope, r.pkg, r.version)] = r.metadata[1]

\* C31: with requests handled one at a time, the step that refuses an upload at
\* a gate leaves the bucket as it was when the upload arrived and leaves every
\* rate window as it is; and a step that changes a rate window is the last
\* step of an upload answered 201 whose archive and metadata are stored.
C31_RejectedWritesNothing ==
    [][/\ \A w \in Workers :
             (req'[w] # req[w] /\ RejectedAtGate(req'[w]))
                => /\ bucket' = req'[w].pre[1]
                   /\ bucket' = bucket
                   /\ rate' = rate
       /\ rate' # rate
             => \E w \in Workers :
                   /\ PersistedBoth(req[w])
                   /\ req[w].pc = "increment"
                   /\ req'[w].status = 201
                   /\ \A ip \in Ips : ip # req[w].ip => rate'[ip] = rate[ip]]_vars

\* The upload was refused with 429 by the window an earlier upload had filled,
\* and the bucket holds what that upload stored.
C31_Witness ==
    /\ RejectedAtGate(req["w1"])
    /\ req["w1"].status = 429
    /\ rate["ip1"].data # Nothing
    /\ rate["ip1"].data[1].count = UPLOAD_LIMIT
    /\ bucket # <<>>

\* The 201 responses to the client that fall into the window [resetAt -
\* WINDOW_MS, resetAt).
CreatedIn(ip, resetAt) ==
    {i \in DOMAIN created : /\ created[i].ip = ip
                            /\ created[i].at >= resetAt - WINDOW_MS
                            /\ created[i].at < resetAt}

\* C32: with the uploads of a client handled one at a time, the stored count of
\* the client's window is at most UPLOAD_LIMIT, and at most UPLOAD_LIMIT uploads
\* were answered 201 between the start of the stored window and its resetAt.
C32_AtMostTen ==
    \A ip \in Ips :
        rate[ip].data # Nothing
            => /\ rate[ip].data[1].count <= UPLOAD_LIMIT
               /\ Cardinality(CreatedIn(ip, rate[ip].data[1].resetAt)) <= UPLOAD_LIMIT

\* The tenth upload of the window was answered 201 and the next one was
\* refused with 429 while the window was live.
C32_Witness ==
    /\ rate["ip1"].data # Nothing
    /\ rate["ip1"].data[1].count = UPLOAD_LIMIT
    /\ now < rate["ip1"].data[1].resetAt
    /\ Cardinality(CreatedIn("ip1", rate["ip1"].data[1].resetAt)) = UPLOAD_LIMIT
    /\ req["w1"].kind = "upload"
    /\ req["w1"].pc = "done"
    /\ req["w1"].status = 429

\* C33: the X-RateLimit-Remaining header of every 201 is UPLOAD_LIMIT minus the
\* count stored for the client after the increment of that upload.
C33_Original ==
    [][\A w \in Workers :
          (req[w].kind = "upload" /\ req[w].pc = "increment" /\ req'[w].status = 201)
             => req'[w].out[1].remaining
                   = UPLOAD_LIMIT - rate'[req[w].ip].data[1].count]_vars

\* The versions whose archive is stored, of the package and among versions.
StoredVersions(scope, pkg, versions) ==
    {v \in versions : buildPackageKey(scope, pkg, v) \in DOMAIN bucket}

\* The versions the index of the package lists; none when there is no index.
ListedVersions(scope, pkg) ==
    IF getIndex(bucket, scope, pkg) = Nothing THEN {}
    ELSE {entry.version : entry \in Range(getIndex(bucket, scope, pkg)[1].versions)}

\* C34: with requests handled one at a time and no store call failed, when no
\* request is being handled the index of every package lists exactly the
\* versions whose archive is stored, and the package has an index document
\* exactly when some version of it is stored.
C34_IndexMatchesArchives ==
    (faults = 0 /\ Quiescent({"w1"}))
        => \A scope \in SeqInputs.scopes, pkg \in SeqInputs.pkgs :
              /\ ListedVersions(scope, pkg) = StoredVersions(scope, pkg, SeqInputs.versions)
              /\ getIndex(bucket, scope, pkg) = Nothing
                    <=> StoredVersions(scope, pkg, SeqInputs.versions) = {}

\* Two versions were uploaded and one of them deleted, with no store failure:
\* the index lists the one that is left.
C34_Witness ==
    /\ faults = 0
    /\ served = 3
    /\ req["w1"].kind = "delete"
    /\ req["w1"].pc = "done"
    /\ req["w1"].status = 200
    /\ \E scope \in SeqInputs.scopes, pkg \in SeqInputs.pkgs :
          /\ Cardinality(ListedVersions(scope, pkg)) = 1
          /\ ListedVersions(scope, pkg) = StoredVersions(scope, pkg, SeqInputs.versions)

\* C35: when a delete of version 1.0.2 answered 200 and an upload of version
\* 1.0.1-b of the same package answered 201 have both finished, with no store
\* call failed, every version the index lists has a stored archive and the
\* index lists 1.0.1-b.
C35_Original ==
    (/\ faults = 0
     /\ Quiescent(Workers)
     /\ req["w1"].kind = "delete" /\ req["w1"].status = 200
     /\ req["w2"].kind = "upload" /\ req["w2"].status = 201)
        => /\ ListedVersions(<<"a">>, <<"p">>)
                 \subseteq StoredVersions(<<"a">>, <<"p">>, LiveInputs.versions)
           /\ V_1_0_1_b \in ListedVersions(<<"a">>, <<"p">>)

\* C36: whenever the archive and the metadata document of a version are both
\* stored, the integrity and the size of the metadata are the hash and the
\* byte length of the stored archive, and every index entry of the version
\* carries the integrity of the metadata.
C36_Original ==
    \A scope \in RaceInputs.scopes, pkg \in RaceInputs.pkgs, version \in RaceInputs.versions :
        (/\ buildPackageKey(scope, pkg, version) \in DOMAIN bucket
         /\ buildMetadataKey(scope, pkg, version) \in DOMAIN bucket)
            => LET archive  == bucket[buildPackageKey(scope, pkg, version)]
                   metadata == bucket[buildMetadataKey(scope, pkg, version)]
               IN  /\ metadata.integrity = computeIntegrity(archive)
                   /\ metadata.size = ByteLength(archive)
                   /\ getIndex(bucket, scope, pkg) # Nothing
                         => \A entry \in Range(getIndex(bucket, scope, pkg)[1].versions) :
                               entry.version = version
                                   => entry.integrity = metadata.integrity

\* C37: no stored index has two entries with the same version string, and
\* neither has the index an upload or a delete is about to write.
C37_NoDuplicateVersions ==
    /\ \A key \in StoredIndexes :
          \A i, j \in 1..Len(bucket[key].versions) :
              bucket[key].versions[i].version = bucket[key].versions[j].version => i = j
    /\ \A w \in Workers :
          req[w].index # Nothing
              => \A i, j \in 1..Len(req[w].index[1].versions) :
                    req[w].index[1].versions[i].version = req[w].index[1].versions[j].version
                        => i = j

\* An upload answered 201 found its version listed when it read the index,
\* with the integrity of other bytes, and wrote the index back with that one
\* entry.
C37_Witness ==
    \E w \in Workers :
        /\ req[w].kind = "upload" /\ req[w].pc = "done" /\ req[w].status = 201
        /\ ~req[w].indexFailed
        /\ req[w].index # Nothing
        /\ Len(req[w].index[1].versions) = 1
        /\ req[w].index[1].versions[1].version = req[w].version
        /\ req[w].index[1].versions[1].integrity # req[w].metadata[1].integrity
        /\ getIndex(bucket, req[w].scope, req[w].pkg) = req[w].index

\* C38: after a grant of a capability to a user has completed, and while no
\* revoke of that capability of that user has been started since (nor was one
\* under way when the grant completed), the user has the capability.
C38_Original ==
    \A w \in Workers :
        (req[w].kind = "grant" /\ req[w].pc = "done" /\ ~req[w].undone)
            => hasPermission(req[w].userId, req[w].permission)

\* The archive of the version is stored without a metadata document and
\* without an index entry, and no upload of the version is past its archive
\* store: what an upload that failed to store its metadata leaves behind.
Orphaned(scope, pkg, version) ==
    /\ buildPackageKey(scope, pkg, version) \in DOMAIN bucket
    /\ buildMetadataKey(scope, pkg, version) \notin DOMAIN bucket
    /\ version \notin ListedVersions(scope, pkg)
    /\ \A w \in Workers :
          ~(/\ req[w].kind = "upload"
            /\ <<req[w].scope, req[w].pkg, req[w].version>> = <<scope, pkg, version>>
            /\ req[w].pc \in {"storeMetadata", "indexGet", "indexPut", "increment"})

\* C39: with requests handled one at a time, once an upload has left the
\* archive of a version stored without metadata, an upload of that version
\* that reaches the existence probe is refused with 409, and as long as the
\* archive is stored the version gets no metadata document and no index entry.
C39_RetryRefused ==
    [][\A scope \in SeqInputs.scopes, pkg \in SeqInputs.pkgs, version \in SeqInputs.versions :
          Orphaned(scope, pkg, version)
             => /\ \A w \in Workers :
                      (/\ At_(w, "upload", "exists")
                       /\ <<req[w].scope, req[w].pkg, req[w].version>> = <<scope, pkg, version>>
                       /\ req'[w] # req[w])
                          => req'[w].pc = "done" /\ req'[w].status = 409
                /\ buildPackageKey(scope, pkg, version) \in DOMAIN bucket'
                      => /\ buildMetadataKey(scope, pkg, version) \notin DOMAIN bucket'
                         /\ getIndex(bucket', scope, pkg) # Nothing
                               => \A entry \in Range(getIndex(bucket', scope, pkg)[1].versions) :
                                     entry.version # version]_vars

\* After the one store failure, which left an archive without metadata, a
\* later upload of the version was refused with 409 and the archive is still
\* the only record of the version.
C39_Witness ==
    /\ faults = 1
    /\ served >= 2
    /\ req["w1"].kind = "upload" /\ req["w1"].pc = "done" /\ req["w1"].status = 409
    /\ ~req["w1"].failed
    /\ Orphaned(req["w1"].scope, req["w1"].pkg, req["w1"].version)

====
